---- MODULE Spec2Model ----
(***************************************************************************)
(* The real-time voice interaction engine of VoiceAssistantPage.jsx:       *)
(* transport session, audio capture, playback scheduler, dialogue context  *)
(* and the lesson-audio handoff, as one state machine.  Every React state  *)
(* cell and every ref of the component is a variable of the same name; the *)
(* remaining variables are the environment the component talks to (the     *)
(* sockets, the microphone permission prompt, the audio clock, the <audio> *)
(* elements) and a few history variables used to state properties.         *)
(***************************************************************************)
EXTENDS Integers, Sequences, FiniteSets, TLC

\* ------------------------------------------------------------------ bounds
MaxTime == 2          \* the audio clock runs 0..MaxTime
MaxDur == 2           \* a chunk lasts 1..MaxDur clock units
MaxChunks == 3        \* audio chunks received in one run
MaxQ == 2             \* questions of a quiz: 0..MaxQ; indices sent: 0..MaxQ
MaxSockets == 2       \* WebSocket objects created in one run
MaxStreams == 2       \* capture graphs held or being acquired at once
MaxAudios == 2        \* <audio> elements playing at once
MaxLog == 1           \* entries of the conversation log kept (most recent)
MaxSent == 2          \* outbound messages kept (most recent)
MaxUpdates == 3       \* context updates of one run of the full dialogue machine
MaxDeltas == 2        \* transcript deltas accumulated in aiTranscript
MaxArrived == 2       \* context updates of a run that records their order
MaxHalfFrame == 2     \* a capture frame has 2, 4, .. 2 * MaxHalfFrame samples
MaxDigits == 3        \* characters of the retry-after number of a message
MaxCountdowns == 2    \* countdown timers running at once

\* ------------------------------------------------------- program constants
NormalClosure == 1000
TargetSampleRate == 24000
NegativeScale == 32768     \* 0x8000
PositiveScale == 32767     \* 0x7fff
DecodeScale == 32768       \* int16 / 32768.0

VARIABLES
  \* transport session
  sockets,                \* readyState of every WebSocket created, by id
  wsRef,                  \* wsRef.current: a socket id, 0 for null
  isConnected, isConnecting, connectionError,
  timers,                 \* pending setTimeout callbacks of the mount effect
  handlerTranscript,      \* per socket: the aiTranscript its onmessage closed over
  \* audio capture
  isListening, isListeningRef, mediaStreamRef, processorRef,
  audioContextRef,        \* an AudioContext has been created
  getUserMediaPending,    \* startAudioCapture calls awaiting the permission
  liveCaptureGraphs,      \* microphone streams (with processor) not stopped
  sampleRate,             \* audioContext.sampleRate, as the browser grants it
  inputBuffer,            \* the frame the processor is handed
  audioData, pcmBuffer,   \* the last frame sent: resampled, then encoded
  \* playback scheduler
  now,                    \* audioContext.currentTime
  audioPlaybackTimeRef, activeAudioSourcesRef, audioQueueRef, isSpeaking,
  playAudioPending,       \* playAudio calls suspended at initAudioContext
  cursorReset,            \* history: the cursor was reset since the last start
  segments,               \* history: every buffer source started so far
  \* dialogue context
  currentContext, displayContent,
  navigated,              \* last url handed to the router
  quizScenario,           \* history: progress through start_quiz, pending(0,B)
  updates,                \* history: context updates counted by a bounded run
  arrived,                \* history: the context updates, in arrival order
  renderedContext,        \* currentContext as of the last render a run tracks
  \* lesson-audio handoff
  pendingLessonAudio, pendingLessonAudioRef, readyToPlayLessonAudio, aiPaused,
  lessonAudioPlaying, lessonAudioRef,
  audioElements,          \* <audio> elements that are playing
  turnCompleteSinceLesson, \* history: response.done came after the last
                          \* start_lesson that carried narration
  \* event router
  messages, currentTranscript, aiTranscript, isProcessing,
  sent,                   \* outbound messages, most recent last
  \* rate limit
  rateLimitWait,          \* seconds left to wait, NaN when it is not a number
  countdowns,             \* setInterval timers of the countdown not yet cleared
  mountedRef              \* the page is mounted

connVars == <<sockets, wsRef, isConnected, isConnecting, connectionError, timers,
              handlerTranscript>>
frameVars == <<sampleRate, inputBuffer, audioData, pcmBuffer>>
capVars == <<isListening, isListeningRef, mediaStreamRef, processorRef,
             audioContextRef, getUserMediaPending, liveCaptureGraphs, frameVars>>
playVars == <<now, audioPlaybackTimeRef, activeAudioSourcesRef, audioQueueRef,
              isSpeaking, playAudioPending, cursorReset, segments>>
ctxVars == <<currentContext, displayContent, navigated, quizScenario, updates,
             arrived, renderedContext>>
handoffVars == <<pendingLessonAudio, pendingLessonAudioRef, readyToPlayLessonAudio,
                 aiPaused, lessonAudioPlaying, lessonAudioRef, audioElements,
                 turnCompleteSinceLesson>>
logVars == <<messages, currentTranscript, aiTranscript, isProcessing>>
rateVars == <<rateLimitWait, countdowns, mountedRef>>
vars == <<connVars, capVars, playVars, ctxVars, handoffVars, logVars, sent, rateVars>>

\* ----------------------------------------------------------------- helpers
Max(a, b) == IF a >= b THEN a ELSE b

\* Append to a log of which only the last `keep` entries are retained.
Push(log, x, keep) ==
  LET s == Append(log, x)
  IN IF Len(s) > keep THEN SubSeq(s, Len(s) - keep + 1, Len(s)) ELSE s

\* addMessage(role, content): content is abstracted to the kind of text.
addMessage(log, role, content) ==
  Push(log, [role |-> role, content |-> content, text |-> << >>], MaxLog)

\* addMessage(role, transcript): a message whose content is a transcript,
\* kept as the sequence of its pieces.
addTranscript(log, role, transcript) ==
  Push(log, [role |-> role, content |-> "transcript", text |-> transcript], MaxLog)

SocketIds == 1..MaxSockets

\* wsRef.current?.readyState === WebSocket.OPEN
wsOpen == wsRef # 0 /\ sockets[wsRef] = "OPEN"

\* Mutant of SendIfOpen: the message is sent whatever the socket's state.
SendRegardless(type) == Push(sent, type, MaxSent)

\* wsRef.current.send(JSON.stringify({type})) guarded by the readyState test
SendIfOpen(type) == IF wsOpen THEN Push(sent, type, MaxSent) ELSE sent

\* ------------------------------------------------------------ dialogue data
Null == [type |-> "null"]
Answers == {"A", "B"}
QuestionIndices == 0..MaxQ
NoIndex == 0 - 1

\* data.questions of start_quiz: a list of n questions (absent: [] by `|| []`)
QuestionList(n) == [k \in 1..n |-> k - 1]

\* Lessons the backend can send: audio_url relative, absolute, or absent.
NoUrl == <<"", "">>
Lessons == { [id |-> "L1", audio_url |-> <<"", "/media/l1.mp3">>],
             [id |-> "L2", audio_url |-> <<"http", "//cdn/l2.mp3">>],
             [id |-> "L3", audio_url |-> NoUrl] }
NoLesson == [id |-> "null", audio_url |-> NoUrl]

\* audio_url.startsWith('http') ? audio_url : `${VITE_API_URL}${audio_url}`
FullAudioUrl(u) == IF u[1] = "http" THEN u ELSE <<"VITE_API_URL", u[2]>>

\* quizAnswers: {}
NoAnswers == [k \in {} |-> "A"]

NoContext ==
  [ mode |-> "idle", lesson |-> NoLesson, quiz |-> "null", assignment |-> "null",
    quizQuestions |-> << >>, currentQuestionIndex |-> 0,
    quizAnswers |-> NoAnswers, pendingConfirmation |-> Null ]

NoDisplay == [type |-> "null", currentIndex |-> NoIndex]

\* ------------------------------------------------------------------- Init
\* A float sample is a whole number of steps of 1 / One.
One == 1 * DecodeScale

\* The state after the first render, for a microphone that delivers `frame`
\* to an audio context running at `rate`.
InitWith(frame, rate) ==
  /\ sockets = [s \in SocketIds |-> "NONE"]
  /\ wsRef = 0
  /\ isConnected = FALSE /\ isConnecting = FALSE /\ connectionError = "null"
  /\ timers = {"connect"}
  /\ handlerTranscript = [s \in SocketIds |-> << >>]
  /\ isListening = FALSE /\ isListeningRef = FALSE
  /\ mediaStreamRef = FALSE /\ processorRef = FALSE /\ audioContextRef = FALSE
  /\ getUserMediaPending = 0 /\ liveCaptureGraphs = 0
  /\ sampleRate = rate /\ inputBuffer = frame
  /\ audioData = << >> /\ pcmBuffer = << >>
  /\ now = 0
  /\ audioPlaybackTimeRef = 0 /\ activeAudioSourcesRef = {} /\ audioQueueRef = << >>
  /\ isSpeaking = FALSE /\ playAudioPending = << >> /\ segments = << >>
  /\ cursorReset = FALSE
  /\ currentContext = NoContext /\ displayContent = NoDisplay
  /\ navigated = "null" /\ quizScenario = "none" /\ updates = 0
  /\ arrived = << >> /\ renderedContext = NoContext
  /\ pendingLessonAudio = NoUrl /\ pendingLessonAudioRef = NoUrl
  /\ readyToPlayLessonAudio = FALSE /\ aiPaused = FALSE
  /\ lessonAudioPlaying = FALSE /\ lessonAudioRef = 0 /\ audioElements = {}
  /\ turnCompleteSinceLesson = FALSE
  /\ messages = << >> /\ currentTranscript = "" /\ aiTranscript = << >>
  /\ isProcessing = FALSE
  /\ sent = << >>
  /\ rateLimitWait = 0 /\ countdowns = {} /\ mountedRef = TRUE

\* The context is created with {sampleRate: 24000}; the microphone is silent.
Init == InitWith(<<0, 0>>, TargetSampleRate)

\* ------------------------------------------------------- transport session
\* Some socket created by connect() is open: its onmessage is handleMessage.
CanReceive == \E s \in SocketIds : sockets[s] = "OPEN"

HasFreshSocket == \E s \in SocketIds : sockets[s] = "NONE"
FreshSocket == CHOOSE s \in SocketIds :
                 sockets[s] = "NONE" /\ \A t \in SocketIds : t < s => sockets[t] # "NONE"

\* connect(): returns at once when the current socket is open; otherwise a
\* new WebSocket replaces wsRef.current (the previous object is not closed).
connectReturnsEarly == wsOpen

connect ==
  IF connectReturnsEarly
  THEN UNCHANGED <<sockets, wsRef, isConnecting, connectionError, handlerTranscript>>
  ELSE /\ HasFreshSocket
       /\ isConnecting' = TRUE
       /\ connectionError' = "null"
       /\ sockets' = [sockets EXCEPT ![FreshSocket] = "CONNECTING"]
       /\ wsRef' = FreshSocket
       \* onmessage = handleMessage, the callback of the render that called
       /\ handlerTranscript' = [handlerTranscript EXCEPT ![FreshSocket] = aiTranscript]

\* ------------------------------------------------------------ audio capture
\* startAudioCapture() up to its await of getUserMedia.
CanStartCapture == liveCaptureGraphs + getUserMediaPending < MaxStreams

startAudioCapture ==
  /\ CanStartCapture
  /\ audioContextRef' = TRUE
  /\ getUserMediaPending' = getUserMediaPending + 1
  /\ UNCHANGED <<isListening, isListeningRef, mediaStreamRef, processorRef,
                 liveCaptureGraphs, frameVars>>

\* What releasing the refs leaves of the live capture graphs.
ReleaseGraph(n, held) == IF held THEN n - 1 ELSE n

\* stopAudioCapture(): clears the live flag, disconnects the processor, stops
\* the tracks, clears the state flag and commits when the socket is open.
stopAudioCapture ==
  /\ isListeningRef' = FALSE
  /\ processorRef' = FALSE
  /\ mediaStreamRef' = FALSE
  /\ liveCaptureGraphs' = ReleaseGraph(liveCaptureGraphs, mediaStreamRef)
  /\ isListening' = FALSE
  /\ sent' = SendIfOpen("input_audio_buffer.commit")
  /\ UNCHANGED rateVars
  /\ UNCHANGED <<audioContextRef, getUserMediaPending, frameVars>>

\* getUserMedia resolves: the rest of startAudioCapture runs.
GrantMic ==
  /\ getUserMediaPending > 0
  /\ getUserMediaPending' = getUserMediaPending - 1
  /\ mediaStreamRef' = TRUE
  /\ processorRef' = TRUE
  /\ liveCaptureGraphs' = liveCaptureGraphs + 1
  /\ isListeningRef' = TRUE
  /\ isListening' = TRUE
  /\ UNCHANGED <<audioContextRef, frameVars>>
  /\ UNCHANGED <<connVars, playVars, ctxVars, handoffVars, logVars, sent, rateVars>>

\* getUserMedia rejects: the catch block of startAudioCapture.
DenyMic ==
  /\ getUserMediaPending > 0
  /\ getUserMediaPending' = getUserMediaPending - 1
  /\ connectionError' = "Microphone access denied"
  /\ UNCHANGED <<sockets, wsRef, isConnected, isConnecting, timers, handlerTranscript>>
  /\ UNCHANGED <<isListening, isListeningRef, mediaStreamRef, processorRef,
                 audioContextRef, liveCaptureGraphs, frameVars>>
  /\ UNCHANGED <<playVars, ctxVars, handoffVars, logVars, sent, rateVars>>

\* ------------------------------------------------- socket events (connect)
SocketOpen(s) ==
  /\ sockets[s] = "CONNECTING"
  /\ sockets' = [sockets EXCEPT ![s] = "OPEN"]
  /\ UNCHANGED <<wsRef, isConnected, isConnecting, connectionError, timers,
                 handlerTranscript>>
  /\ UNCHANGED <<capVars, playVars, ctxVars, handoffVars, logVars, sent, rateVars>>

\* onerror: the browser has already failed the connection (readyState CLOSED);
\* its close event follows.
SocketError(s) ==
  /\ sockets[s] \in {"CONNECTING", "OPEN"}
  /\ sockets' = [sockets EXCEPT ![s] = "FAILED"]
  /\ connectionError' = "Connection error"
  /\ isConnecting' = FALSE
  /\ UNCHANGED <<wsRef, isConnected, timers, handlerTranscript>>
  /\ UNCHANGED <<capVars, playVars, ctxVars, handoffVars, logVars, sent, rateVars>>

CloseCodes == {NormalClosure, 1006}

\* event.reason of a close event: empty, or a text.
CloseReasons == {"", "going away"}

\* Mutant of closeError: the code is not looked at.
closeErrorIgnoringCode(code, reason, old) ==
  "Connection closed: " \o (IF reason # "" THEN reason ELSE "Unknown reason")

\* The connection error the close handler leaves:
\* `Connection closed: ${event.reason || 'Unknown reason'}` unless code is 1000.
closeError(code, reason, old) ==
  IF code # NormalClosure
  THEN "Connection closed: " \o (IF reason # "" THEN reason ELSE "Unknown reason")
  ELSE old

\* onclose(event); a socket is CLOSING once the page has called close() on it
SocketClose(s, code, reason) ==
  /\ sockets[s] \in {"CONNECTING", "OPEN", "FAILED", "CLOSING"}
  /\ sockets[s] = "FAILED" => code # NormalClosure
  /\ sockets' = [sockets EXCEPT ![s] = "CLOSED"]
  /\ isConnected' = FALSE
  /\ isListeningRef' = FALSE
  /\ processorRef' = FALSE
  /\ mediaStreamRef' = FALSE
  /\ liveCaptureGraphs' = ReleaseGraph(liveCaptureGraphs, mediaStreamRef)
  /\ isListening' = FALSE
  \* stopAudioCapture's send reads wsRef.current after this socket has closed
  /\ sent' = IF wsRef # 0 /\ sockets'[wsRef] = "OPEN"
             THEN Push(sent, "input_audio_buffer.commit", MaxSent) ELSE sent
  /\ UNCHANGED rateVars
  /\ connectionError' = closeError(code, reason, connectionError)
  /\ UNCHANGED <<wsRef, isConnecting, timers, handlerTranscript, audioContextRef,
                 getUserMediaPending, frameVars>>
  /\ UNCHANGED <<playVars, ctxVars, handoffVars, logVars>>

\* The mount effect's first timer: connect(), then arm the auto-start timer
\* for a user with is_blind set.
MountConnectTimer(is_blind) ==
  /\ "connect" \in timers
  /\ connect
  /\ timers' = IF is_blind THEN {"autostart"} ELSE {}
  /\ UNCHANGED <<isConnected, capVars, playVars, ctxVars, handoffVars, logVars, sent, rateVars>>

\* The second timer: startAudioCapture() when the socket is open by then.
AutoStartTimer ==
  /\ "autostart" \in timers
  /\ timers' = {}
  /\ IF wsOpen THEN startAudioCapture ELSE UNCHANGED capVars
  /\ UNCHANGED <<sockets, wsRef, isConnected, isConnecting, connectionError,
                 handlerTranscript>>
  /\ UNCHANGED <<playVars, ctxVars, handoffVars, logVars, sent, rateVars>>

\* The "Try reconnecting" button, rendered while connectionError is set.
RetryClick ==
  /\ connectionError # "null"
  /\ connect
  /\ UNCHANGED <<isConnected, timers, capVars, playVars, ctxVars, handoffVars, logVars, sent, rateVars>>

\* ------------------------------------------------------- playback scheduler
Durations == 1..MaxDur

\* Mutant of StartTime: the cursor is ignored, every buffer starts at once.
StartTimeIgnoringCursor(currentTime, playbackTime) == currentTime

\* const startTime = Math.max(currentTime, audioPlaybackTimeRef.current)
StartTime(currentTime, playbackTime) == Max(currentTime, playbackTime)

\* audioPlaybackTimeRef.current = startTime + audioBuffer.duration
NextFree(startTime, duration) == startTime + duration

\* Mutant of StopSources: the handles are forgotten but left to drain.
StopSourcesDraining(segs, active) == segs

\* activeAudioSourcesRef.current.forEach(source => source.stop())
StopSources(segs, active) ==
  [i \in DOMAIN segs |->
     IF i \in active THEN [segs[i] EXCEPT !.state = "stopped"] ELSE segs[i]]

\* Mutant of ResetCursor: the cursor is left where the last chunk put it.
KeepCursor == audioPlaybackTimeRef

\* The cursor interruptAudio and resetAudioPlayback leave.
ResetCursor == 0

\* response.audio.delta: push the chunk, processAudioQueue() shifts the head
\* of the queue into playAudio, which suspends at `await initAudioContext()`.
\* d = 0 stands for a message without delta.
MsgAudioDelta(d) ==
  /\ CanReceive
  /\ Len(segments) + Len(playAudioPending) < MaxChunks
  /\ IF d = 0
     THEN UNCHANGED <<audioQueueRef, playAudioPending, isSpeaking, audioContextRef>>
     ELSE LET q == Append(audioQueueRef, d)
          IN /\ isSpeaking' = TRUE
             /\ playAudioPending' = Append(playAudioPending, Head(q))
             /\ audioQueueRef' = Tail(q)
             /\ audioContextRef' = TRUE
  /\ UNCHANGED <<now, audioPlaybackTimeRef, activeAudioSourcesRef, cursorReset, segments>>
  /\ UNCHANGED <<isListening, isListeningRef, mediaStreamRef, processorRef,
                 getUserMediaPending, liveCaptureGraphs, frameVars>>
  /\ UNCHANGED <<connVars, ctxVars, handoffVars, logVars, sent, rateVars>>

\* playAudio after the await: decode, start the source at startTime, track
\* it, advance the cursor; then the while loop of processAudioQueue goes on.
PlayAudioResume ==
  /\ playAudioPending # << >>
  /\ LET d == Head(playAudioPending)
         startTime == StartTime(now, audioPlaybackTimeRef)
         id == Len(segments) + 1
         rest == Tail(playAudioPending)
     IN /\ segments' = Append(segments,
               [start |-> startTime, dur |-> d, at |-> now, state |-> "scheduled",
                contiguous |-> (segments # << >> /\ ~cursorReset)])
        /\ activeAudioSourcesRef' = activeAudioSourcesRef \cup {id}
        /\ audioPlaybackTimeRef' = NextFree(startTime, d)
        /\ cursorReset' = FALSE
        /\ IF audioQueueRef # << >>
           THEN /\ playAudioPending' = Append(rest, Head(audioQueueRef))
                /\ audioQueueRef' = Tail(audioQueueRef)
           ELSE /\ playAudioPending' = rest
                /\ audioQueueRef' = audioQueueRef
  /\ UNCHANGED <<now, isSpeaking>>
  /\ UNCHANGED <<connVars, capVars, ctxVars, handoffVars, logVars, sent, rateVars>>

\* source.onended: natural completion removes the handle from the active set.
SourceEnded(i) ==
  /\ i \in activeAudioSourcesRef
  /\ segments[i].start + segments[i].dur <= now
  /\ activeAudioSourcesRef' = activeAudioSourcesRef \ {i}
  /\ segments' = [segments EXCEPT ![i].state = "ended"]
  /\ UNCHANGED <<now, audioPlaybackTimeRef, audioQueueRef, isSpeaking,
                 playAudioPending, cursorReset>>
  /\ UNCHANGED <<connVars, capVars, ctxVars, handoffVars, logVars, sent, rateVars>>

\* The audio clock advances.
Tick ==
  /\ now < MaxTime
  /\ now' = now + 1
  /\ UNCHANGED <<audioPlaybackTimeRef, activeAudioSourcesRef, audioQueueRef,
                 isSpeaking, playAudioPending, cursorReset, segments>>
  /\ UNCHANGED <<connVars, capVars, ctxVars, handoffVars, logVars, sent, rateVars>>

\* response.audio.done: resetAudioPlayback()
MsgAudioDone ==
  /\ CanReceive
  /\ audioPlaybackTimeRef' = ResetCursor
  /\ isSpeaking' = FALSE
  /\ cursorReset' = TRUE
  /\ UNCHANGED <<now, activeAudioSourcesRef, audioQueueRef, playAudioPending, segments>>
  /\ UNCHANGED <<connVars, capVars, ctxVars, handoffVars, logVars, sent, rateVars>>

\* input_audio_buffer.speech_started: interruptAudio(), then the transcript
\* placeholder.
MsgSpeechStarted ==
  /\ CanReceive
  /\ segments' = StopSources(segments, activeAudioSourcesRef)
  /\ activeAudioSourcesRef' = {}
  /\ audioQueueRef' = << >>
  /\ audioPlaybackTimeRef' = ResetCursor
  /\ isSpeaking' = FALSE
  /\ cursorReset' = TRUE
  /\ sent' = SendIfOpen("response.cancel")
  /\ UNCHANGED rateVars
  /\ currentTranscript' = "Listening..."
  /\ UNCHANGED <<now, playAudioPending, messages, aiTranscript, isProcessing>>
  /\ UNCHANGED <<connVars, capVars, ctxVars, handoffVars>>

\* The scheduler under a stream of chunks, stream-done signals, barge-ins and
\* the running clock.
NextPlayback ==
  \/ MountConnectTimer(FALSE)
  \/ \E s \in SocketIds : SocketOpen(s)
  \/ \E d \in 0..MaxDur : MsgAudioDelta(d)
  \/ PlayAudioResume
  \/ \E i \in 1..MaxChunks : SourceEnded(i)
  \/ Tick
  \/ MsgAudioDone
  \/ MsgSpeechStarted

SpecPlayback == Init /\ [][NextPlayback]_vars

\* ---------------------------------------------- properties of the scheduler
SegmentEnd(n) == segments[n].start + segments[n].dur

\* C2: within one uninterrupted run of chunks (no interruption or stream-done
\* between two starts) chunk n starts at max(now, nextFree), where nextFree is
\* the end of chunk n-1, so start[n] >= start[n-1] + duration[n-1]; a chunk
\* that follows a reset, or the first one, starts at the clock.
GaplessWithinTurn ==
  \A n \in 1..Len(segments) :
    IF n > 1 /\ segments[n].contiguous
    THEN /\ segments[n].start = Max(segments[n].at, SegmentEnd(n - 1))
         /\ segments[n].start >= SegmentEnd(n - 1)
         /\ segments[n].start >= segments[n - 1].start
    ELSE segments[n].start = segments[n].at

\* A second chunk arrived while the first was still to play and was queued
\* behind it.
GaplessWitness ==
  /\ Len(segments) >= 2
  /\ segments[2].contiguous
  /\ segments[2].start > segments[2].at
  /\ segments[2].start = SegmentEnd(1)

\* C3: over a whole session every segment starts no earlier than every
\* segment scheduled before it.
StartTimesNonDecreasing ==
  \A m, n \in 1..Len(segments) : m < n => segments[n].start >= segments[m].start

\* The playback state interruptAudio works on.
playbackState == <<activeAudioSourcesRef, audioQueueRef, audioPlaybackTimeRef, segments>>

\* C4 as stated: an interruption with nothing scheduled leaves the playback
\* state as it was.
InterruptWithNothingScheduledChangesNothing ==
  [][(MsgSpeechStarted /\ activeAudioSourcesRef = {}) => UNCHANGED playbackState]_vars

\* C4 (amended): after interruptAudio every handle of the active set is
\* stopped, the active set and the queue are empty and the cursor is 0; with
\* nothing scheduled and the cursor already 0 the playback state is unchanged,
\* so a repeated interruption changes nothing.
InterruptStopsAll ==
  [][MsgSpeechStarted =>
       /\ \A i \in activeAudioSourcesRef : segments'[i].state = "stopped"
       /\ \A i \in DOMAIN segments \ activeAudioSourcesRef : segments'[i] = segments[i]
       /\ activeAudioSourcesRef' = {}
       /\ audioQueueRef' = << >>
       /\ audioPlaybackTimeRef' = 0
       /\ (activeAudioSourcesRef = {} /\ audioPlaybackTimeRef = 0 /\ audioQueueRef = << >>)
            => UNCHANGED playbackState]_vars

\* Two handles were scheduled and both were stopped by one interruption,
\* before the clock reached the end of either.
InterruptWitness ==
  /\ Len(segments) >= 2
  /\ segments[1].state = "stopped" /\ segments[2].state = "stopped"
  /\ SegmentEnd(1) > now
  /\ activeAudioSourcesRef = {} /\ audioPlaybackTimeRef = 0 /\ cursorReset

\* C26: an interruption leaves no playAudio call suspended.  A suspended call
\* holds a chunk that was received before the interruption, and nothing but
\* its own resumption ends it: PlayAudioResume is enabled whenever a call is
\* suspended and schedules the chunk.  So a chunk received before the
\* interruption is scheduled after it exactly when this fails.
NoChunkFromBeforeInterruption ==
  [][MsgSpeechStarted => playAudioPending' = << >>]_vars

\* The scheduler within turns that are never interrupted: chunks, the
\* stream-done signal, natural completion and the running clock.
NextStreamDone ==
  \/ MountConnectTimer(FALSE)
  \/ \E s \in SocketIds : SocketOpen(s)
  \/ \E d \in Durations : MsgAudioDelta(d)
  \/ PlayAudioResume
  \/ \E i \in 1..MaxChunks : SourceEnded(i)
  \/ Tick
  \/ MsgAudioDone

SpecStreamDone == Init /\ [][NextStreamDone]_vars

\* C31: response.audio.done resets the scheduling cursor to 0 and leaves the
\* active set as it was: no segment already scheduled is stopped or removed,
\* and neither the queue nor a suspended playAudio call is dropped.
StreamDoneResetsCursorOnly ==
  [][MsgAudioDone =>
       /\ audioPlaybackTimeRef' = 0
       /\ activeAudioSourcesRef' = activeAudioSourcesRef
       /\ segments' = segments
       /\ audioQueueRef' = audioQueueRef
       /\ playAudioPending' = playAudioPending]_vars

\* The stream-done signal arrived while a segment of the turn was still to
\* finish: the segment is in the active set, scheduled, and the cursor is 0.
StreamDoneWitness ==
  /\ cursorReset /\ audioPlaybackTimeRef = 0
  /\ \E i \in activeAudioSourcesRef :
        segments[i].state = "scheduled" /\ SegmentEnd(i) > now

\* ------------------------------------------- dialogue context (transitions)
\* data.answerText of a pending_answer, as the backend derives it
AnswerText(a) == <<"option", a>>

\* {...prev.quizAnswers, [data.questionIndex]: data.answer}
SetAnswer(answers, i, a) ==
  [k \in DOMAIN answers \cup {i} |-> IF k = i THEN a ELSE answers[k]]

\* Mutant of startQuiz: the answers of an earlier quiz are kept.
startQuizKeepingAnswers(prev, quiz, questions) ==
  [prev EXCEPT !.mode = "quiz", !.quiz = quiz, !.quizQuestions = questions,
               !.currentQuestionIndex = 0]

startQuiz(prev, quiz, questions) ==
  [prev EXCEPT !.mode = "quiz", !.quiz = quiz, !.quizQuestions = questions,
               !.currentQuestionIndex = 0, !.quizAnswers = NoAnswers]

showQuestion(prev, questionIndex) ==
  [prev EXCEPT !.currentQuestionIndex = questionIndex]

\* Mutant of pendingAnswer: the proposed answer is recorded at once.
pendingAnswerCommitting(prev, questionIndex, answer) ==
  [prev EXCEPT !.quizAnswers = SetAnswer(@, questionIndex, answer),
               !.pendingConfirmation =
                  [type |-> "quiz_answer", questionIndex |-> questionIndex,
                   answer |-> answer, answerText |-> AnswerText(answer)]]

pendingAnswer(prev, questionIndex, answer) ==
  [prev EXCEPT !.pendingConfirmation =
                  [type |-> "quiz_answer", questionIndex |-> questionIndex,
                   answer |-> answer, answerText |-> AnswerText(answer)]]

\* Mutant of answerConfirmed: the map is rebuilt from the confirmed answer
\* alone, dropping the earlier entries.
answerConfirmedDroppingOthers(prev, questionIndex, answer) ==
  [prev EXCEPT !.quizAnswers = SetAnswer(NoAnswers, questionIndex, answer),
               !.pendingConfirmation = Null]

answerConfirmed(prev, questionIndex, answer) ==
  [prev EXCEPT !.quizAnswers = SetAnswer(@, questionIndex, answer),
               !.pendingConfirmation = Null]

\* Mutant of answerCancelled: cancelling also discards the answers.
answerCancelledClearingAnswers(prev) ==
  [prev EXCEPT !.pendingConfirmation = Null, !.quizAnswers = NoAnswers]

answerCancelled(prev) == [prev EXCEPT !.pendingConfirmation = Null]

\* Mutant of quizCompleted: a pending confirmation survives the end of the quiz.
quizCompletedKeepingPending(prev) == [prev EXCEPT !.mode = "idle"]

quizCompleted(prev) == [prev EXCEPT !.mode = "idle", !.pendingConfirmation = Null]

startLesson(prev, lesson) == [prev EXCEPT !.mode = "lesson", !.lesson = lesson]

startAssignment(prev, assignment) ==
  [prev EXCEPT !.mode = "assignment", !.assignment = assignment]

confirmSubmission(prev, submissionType) ==
  [prev EXCEPT !.pendingConfirmation = [type |-> submissionType, data |-> "submissionData"]]

submissionComplete(prev) == [prev EXCEPT !.mode = "idle", !.pendingConfirmation = Null]

clearDisplay(prev) == [prev EXCEPT !.mode = "idle"]

\* setDisplayContent({type: ...}) of the actions that replace the display
Display(type) == [type |-> type, currentIndex |-> NoIndex]

\* setDisplayContent(prev => ({...prev, currentIndex})) of show_question
showQuestionDisplay(prev, questionIndex) ==
  [type |-> IF prev.type = "null" THEN "undefined" ELSE prev.type,
   currentIndex |-> questionIndex]

\* History: how far the context updates received so far have followed
\* start_quiz, pending_answer(0, B), then answer_cancelled or
\* answer_confirmed(0, B).
ScenarioStep(s, action, i, a) ==
  CASE action = "start_quiz" -> "started"
    [] action = "pending_answer" /\ s = "started" /\ i = 0 /\ a = "B" -> "pending"
    [] action = "answer_cancelled" /\ s = "pending" -> "cancelled"
    [] action = "answer_confirmed" /\ s = "pending" /\ i = 0 /\ a = "B" -> "confirmed"
    [] OTHER -> "none"

\* Mutant of UpdaterBase: the updater works on the value the handler's render
\* saw, not on the pending state.
UpdaterBaseStale(pending, rendered) == rendered

\* setCurrentContext(prev => ...): React hands the updater the pending state,
\* which includes the updates queued since the last render.
UpdaterBase(pending, rendered) == pending

prevContext == UpdaterBase(currentContext, renderedContext)

\* What a context_update that is not start_lesson or navigate leaves alone.
ContextFrame ==
  UNCHANGED <<connVars, capVars, playVars, handoffVars, logVars, sent, rateVars, navigated>>

\* ---------------------------------- handleContextUpdate, one action per tag
CtxStartQuiz(n) ==
  /\ CanReceive
  /\ currentContext' = startQuiz(prevContext, "quiz", QuestionList(n))
  /\ displayContent' = [type |-> "quiz", currentIndex |-> 0]
  /\ quizScenario' = ScenarioStep(quizScenario, "start_quiz", 0, "")
  /\ ContextFrame

CtxShowQuestion(i) ==
  /\ CanReceive
  /\ currentContext' = showQuestion(prevContext, i)
  /\ displayContent' = showQuestionDisplay(displayContent, i)
  /\ quizScenario' = ScenarioStep(quizScenario, "show_question", i, "")
  /\ ContextFrame

CtxPendingAnswer(i, a) ==
  /\ CanReceive
  /\ currentContext' = pendingAnswer(prevContext, i, a)
  /\ quizScenario' = ScenarioStep(quizScenario, "pending_answer", i, a)
  /\ UNCHANGED displayContent
  /\ ContextFrame

CtxAnswerConfirmed(i, a) ==
  /\ CanReceive
  /\ currentContext' = answerConfirmed(prevContext, i, a)
  /\ quizScenario' = ScenarioStep(quizScenario, "answer_confirmed", i, a)
  /\ UNCHANGED displayContent
  /\ ContextFrame

CtxAnswerCancelled ==
  /\ CanReceive
  /\ currentContext' = answerCancelled(prevContext)
  /\ quizScenario' = ScenarioStep(quizScenario, "answer_cancelled", 0, "")
  /\ UNCHANGED displayContent
  /\ ContextFrame

CtxQuizCompleted ==
  /\ CanReceive
  /\ displayContent' = Display("quiz_result")
  /\ currentContext' = quizCompleted(prevContext)
  /\ quizScenario' = ScenarioStep(quizScenario, "quiz_completed", 0, "")
  /\ ContextFrame

\* Mutant of lessonAudioUrl: the has_audio flag is not looked at.
lessonAudioUrlIgnoringFlag(lesson, has_audio) ==
  IF lesson.audio_url # NoUrl THEN FullAudioUrl(lesson.audio_url) ELSE NoUrl

\* The narration url start_lesson stores, NoUrl when it starts no handoff:
\* data.has_audio && data.lesson?.audio_url
lessonAudioUrl(lesson, has_audio) ==
  IF has_audio /\ lesson.audio_url # NoUrl THEN FullAudioUrl(lesson.audio_url) ELSE NoUrl

\* start_lesson: besides the context, a lesson with narration stores the url
\* and stops a running capture through the refs (no commit is sent here).
CtxStartLesson(lesson, has_audio) ==
  /\ CanReceive
  /\ currentContext' = startLesson(prevContext, lesson)
  /\ displayContent' = Display("lesson")
  /\ quizScenario' = ScenarioStep(quizScenario, "start_lesson", 0, "")
  /\ LET audioUrl == lessonAudioUrl(lesson, has_audio)
     IN IF audioUrl # NoUrl
        THEN /\ pendingLessonAudio' = audioUrl
             /\ pendingLessonAudioRef' = audioUrl
             /\ turnCompleteSinceLesson' = FALSE
             /\ IF isListeningRef
                THEN /\ isListeningRef' = FALSE
                     /\ processorRef' = FALSE
                     /\ mediaStreamRef' = FALSE
                     /\ liveCaptureGraphs' = ReleaseGraph(liveCaptureGraphs, mediaStreamRef)
                     /\ isListening' = FALSE
                ELSE UNCHANGED <<isListeningRef, processorRef, mediaStreamRef,
                                 liveCaptureGraphs, isListening>>
        ELSE UNCHANGED <<pendingLessonAudio, pendingLessonAudioRef, isListeningRef,
                         processorRef, mediaStreamRef, liveCaptureGraphs, isListening,
                         turnCompleteSinceLesson>>
  /\ UNCHANGED <<audioContextRef, getUserMediaPending, frameVars>>
  /\ UNCHANGED <<readyToPlayLessonAudio, aiPaused, lessonAudioPlaying, lessonAudioRef,
                 audioElements>>
  /\ UNCHANGED <<connVars, playVars, logVars, sent, rateVars, navigated>>

CtxStartAssignment ==
  /\ CanReceive
  /\ currentContext' = startAssignment(prevContext, "assignment")
  /\ displayContent' = Display("assignment")
  /\ quizScenario' = ScenarioStep(quizScenario, "start_assignment", 0, "")
  /\ ContextFrame

CtxConfirmSubmission(submissionType) ==
  /\ CanReceive
  /\ currentContext' = confirmSubmission(prevContext, submissionType)
  /\ quizScenario' = ScenarioStep(quizScenario, "confirm_submission", 0, "")
  /\ UNCHANGED displayContent
  /\ ContextFrame

CtxSubmissionComplete ==
  /\ CanReceive
  /\ currentContext' = submissionComplete(prevContext)
  /\ displayContent' = Display("submission_result")
  /\ quizScenario' = ScenarioStep(quizScenario, "submission_complete", 0, "")
  /\ ContextFrame

\* show_courses, show_progress, enrollment_complete, show_assignments,
\* show_quizzes: the display only.
ShowActions ==
  { <<"show_courses", "courses">>, <<"show_progress", "progress">>,
    <<"enrollment_complete", "enrollment_result">>,
    <<"show_assignments", "assignments">>, <<"show_quizzes", "quizzes">> }

CtxShow(action) ==
  /\ CanReceive
  /\ displayContent' = Display(action[2])
  /\ quizScenario' = ScenarioStep(quizScenario, action[1], 0, "")
  /\ UNCHANGED currentContext
  /\ ContextFrame

\* navigate: handed to the router when data.url is set ("null": absent)
CtxNavigate(url) ==
  /\ CanReceive
  /\ navigated' = IF url # "null" THEN url ELSE navigated
  /\ quizScenario' = ScenarioStep(quizScenario, "navigate", 0, "")
  /\ UNCHANGED <<currentContext, displayContent>>
  /\ UNCHANGED <<connVars, capVars, playVars, handoffVars, logVars, sent, rateVars>>

CtxClearDisplay ==
  /\ CanReceive
  /\ displayContent' = NoDisplay
  /\ currentContext' = clearDisplay(prevContext)
  /\ quizScenario' = ScenarioStep(quizScenario, "clear_display", 0, "")
  /\ ContextFrame

\* A context_update whose action matches no branch.
CtxUnknownAction ==
  /\ CanReceive
  /\ quizScenario' = ScenarioStep(quizScenario, "unknown", 0, "")
  /\ UNCHANGED <<currentContext, displayContent>>
  /\ ContextFrame

\* Mutant of MsgDisplayUpdate: the display update also puts the dialogue back
\* to idle, as clear_display does.
MsgDisplayUpdateResettingMode ==
  /\ UNCHANGED <<updates, arrived, renderedContext>>
  /\ CtxClearDisplay

\* display_update: setDisplayContent(data.content)
MsgDisplayUpdate ==
  /\ CanReceive
  /\ displayContent' = Display("content")
  /\ UNCHANGED <<currentContext, quizScenario, updates, arrived, renderedContext>>
  /\ UNCHANGED <<connVars, capVars, playVars, handoffVars, logVars, sent, rateVars, navigated>>

\* The message types whose case only logs, and the default case.
IgnoredTypes ==
  { "session.updated", "input_audio_buffer.committed", "conversation.item.created",
    "response.function_call_arguments.done", "unhandled" }

MsgIgnored(type) ==
  /\ CanReceive
  /\ type \in IgnoredTypes
  /\ UNCHANGED vars

\* A context update of a run that keeps no count and no record of them.
SameRun == UNCHANGED <<updates, arrived, renderedContext>>

\* The dialogue state machine under every context_update the backend can
\* send, for runs of up to MaxUpdates updates, with the display updates and
\* the ignored message types between them.
MoreUpdates ==
  /\ updates < MaxUpdates /\ updates' = updates + 1
  /\ UNCHANGED <<arrived, renderedContext>>

NextDialogue ==
  \/ MountConnectTimer(FALSE)
  \/ \E s \in SocketIds : SocketOpen(s)
  \/ MoreUpdates /\ \E n \in 0..MaxQ : CtxStartQuiz(n)
  \/ MoreUpdates /\ \E i \in QuestionIndices : CtxShowQuestion(i)
  \/ MoreUpdates /\ \E i \in QuestionIndices, a \in Answers : CtxPendingAnswer(i, a)
  \/ MoreUpdates /\ \E i \in QuestionIndices, a \in Answers : CtxAnswerConfirmed(i, a)
  \/ MoreUpdates /\ CtxAnswerCancelled
  \/ MoreUpdates /\ CtxQuizCompleted
  \/ MoreUpdates /\ \E lesson \in Lessons, has_audio \in BOOLEAN :
                       CtxStartLesson(lesson, has_audio)
  \/ MoreUpdates /\ CtxStartAssignment
  \/ MoreUpdates /\ \E submissionType \in {"quiz", "assignment"} :
                       CtxConfirmSubmission(submissionType)
  \/ MoreUpdates /\ CtxSubmissionComplete
  \/ MoreUpdates /\ \E action \in ShowActions : CtxShow(action)
  \/ MoreUpdates /\ \E url \in {"null", "/student/courses"} : CtxNavigate(url)
  \/ MoreUpdates /\ CtxClearDisplay
  \/ MoreUpdates /\ CtxUnknownAction
  \/ MsgDisplayUpdate
  \/ \E type \in IgnoredTypes : MsgIgnored(type)

SpecDialogue == Init /\ [][NextDialogue]_vars

\* The quiz part of the machine, for runs of any length: the updates of the
\* quiz and submission flow.
NextQuiz ==
  \/ MountConnectTimer(FALSE)
  \/ \E s \in SocketIds : SocketOpen(s)
  \/ SameRun /\ \E n \in 0..MaxQ : CtxStartQuiz(n)
  \/ SameRun /\ \E i \in QuestionIndices : CtxShowQuestion(i)
  \/ SameRun /\ \E i \in QuestionIndices, a \in Answers : CtxPendingAnswer(i, a)
  \/ SameRun /\ \E i \in QuestionIndices, a \in Answers : CtxAnswerConfirmed(i, a)
  \/ SameRun /\ CtxAnswerCancelled
  \/ SameRun /\ CtxQuizCompleted
  \/ SameRun /\ \E submissionType \in {"quiz", "assignment"} :
                            CtxConfirmSubmission(submissionType)
  \/ SameRun /\ CtxSubmissionComplete

SpecQuiz == Init /\ [][NextQuiz]_vars

\* ------------------------------------------ properties of the quiz dialogue
quizAnswers == currentContext.quizAnswers
pendingConfirmation == currentContext.pendingConfirmation

\* C5: answer_cancelled sets pendingConfirmation to null and leaves the
\* answers map as it was, in every state; after start_quiz, pending_answer(0, B),
\* answer_cancelled the answers are empty and nothing is pending.
AnswerCancelledKeepsAnswers ==
  /\ [][CtxAnswerCancelled =>
          /\ currentContext'.pendingConfirmation = Null
          /\ currentContext'.quizAnswers = quizAnswers]_vars
  /\ [](quizScenario = "cancelled" =>
          quizAnswers = NoAnswers /\ pendingConfirmation = Null)

\* The three updates of the scenario have been handled, in that order.
AnswerCancelledWitness ==
  /\ quizScenario = "cancelled"
  /\ quizAnswers = NoAnswers
  /\ pendingConfirmation = Null
  /\ currentContext.mode = "quiz"

\* C6: answer_confirmed(i, a) sets answers[i] = a, leaves every other entry
\* of the map as it was and clears pendingConfirmation; after start_quiz,
\* pending_answer(0, B), answer_confirmed(0, B) the map is exactly {0: B}.
AnswerConfirmedSetsOneKey ==
  /\ [][\A i \in QuestionIndices, a \in Answers :
          CtxAnswerConfirmed(i, a) =>
            /\ DOMAIN currentContext'.quizAnswers = DOMAIN quizAnswers \cup {i}
            /\ currentContext'.quizAnswers[i] = a
            /\ \A k \in DOMAIN quizAnswers \ {i} :
                 currentContext'.quizAnswers[k] = quizAnswers[k]
            /\ currentContext'.pendingConfirmation = Null]_vars
  /\ [](quizScenario = "confirmed" =>
          quizAnswers = (0 :> "B") /\ pendingConfirmation = Null)

AnswerConfirmedWitness ==
  /\ quizScenario = "confirmed"
  /\ quizAnswers = (0 :> "B")
  /\ pendingConfirmation = Null

\* C7: the answers map changes only in a step of answer_confirmed, which sets
\* one key, or of start_quiz, which empties it; pending_answer(i, a) sets
\* pendingConfirmation to {quiz_answer, i, a} and changes nothing else of the
\* context; no other context update or message changes the map.
NoAnswerWithoutConfirmation ==
  [][/\ currentContext'.quizAnswers # quizAnswers =>
          \/ \E i \in QuestionIndices, a \in Answers :
               /\ CtxAnswerConfirmed(i, a)
               /\ \A k \in DOMAIN currentContext'.quizAnswers \ {i} :
                    k \in DOMAIN quizAnswers /\ currentContext'.quizAnswers[k] = quizAnswers[k]
          \/ \E n \in 0..MaxQ :
               CtxStartQuiz(n) /\ currentContext'.quizAnswers = NoAnswers
     /\ \A i \in QuestionIndices, a \in Answers :
          CtxPendingAnswer(i, a) =>
            /\ currentContext'.pendingConfirmation.type = "quiz_answer"
            /\ currentContext'.pendingConfirmation.questionIndex = i
            /\ currentContext'.pendingConfirmation.answer = a
            /\ \A f \in DOMAIN currentContext \ {"pendingConfirmation"} :
                 currentContext'[f] = currentContext[f]]_vars

\* A proposed answer is pending and an earlier confirmed answer is still the
\* only entry of the map.
PendingNotCommittedWitness ==
  /\ pendingConfirmation.type = "quiz_answer"
  /\ pendingConfirmation.questionIndex = 1
  /\ pendingConfirmation.answer = "B"
  /\ quizAnswers = (0 :> "A")

\* C8: every key of the answers map is an index into quizQuestions.
AnswerKeysValid ==
  \A k \in DOMAIN quizAnswers : 0 <= k /\ k < Len(currentContext.quizQuestions)

\* C39: from any state start_quiz(quiz, questions) leaves mode quiz, question
\* index 0, no answers, the questions given and the quiz view at index 0, and
\* nothing else of the context changed; show_question(i) sets the question
\* index of the context and of the display to i and changes nothing else:
\* the answers, the questions and the mode are as before.
StartQuizResetsShowQuestionMovesPointer ==
  /\ [][\A n \in 0..MaxQ :
          CtxStartQuiz(n) =>
            /\ currentContext'.mode = "quiz"
            /\ currentContext'.currentQuestionIndex = 0
            /\ currentContext'.quizAnswers = NoAnswers
            /\ currentContext'.quizQuestions = QuestionList(n)
            /\ displayContent' = [type |-> "quiz", currentIndex |-> 0]
            /\ \A f \in {"lesson", "assignment", "pendingConfirmation"} :
                 currentContext'[f] = currentContext[f]]_vars
  /\ [][\A i \in QuestionIndices :
          CtxShowQuestion(i) =>
            /\ currentContext'.currentQuestionIndex = i
            /\ displayContent'.currentIndex = i
            /\ displayContent.type # "null" => displayContent'.type = displayContent.type
            /\ \A f \in DOMAIN currentContext \ {"currentQuestionIndex"} :
                 currentContext'[f] = currentContext[f]]_vars

\* A quiz was started after an earlier update and the second of its questions
\* is then shown: the pointer moved, the quiz view is up and no answer is
\* recorded.
StartQuizWitness ==
  /\ updates = MaxUpdates
  /\ currentContext.mode = "quiz"
  /\ currentContext.quizQuestions = QuestionList(MaxQ)
  /\ currentContext.currentQuestionIndex = 1
  /\ displayContent = [type |-> "quiz", currentIndex |-> 1]
  /\ quizAnswers = NoAnswers
  /\ currentContext.lesson # NoLesson

\* C40: from any state quiz_completed leaves mode idle, the quiz result on
\* the display and no pending confirmation; submission_complete leaves mode
\* idle and the submission result on the display.  Neither changes the
\* answers, the questions or the active lesson, quiz and assignment.
CompletionReturnsToIdle ==
  /\ [][CtxQuizCompleted =>
          /\ currentContext'.mode = "idle"
          /\ currentContext'.pendingConfirmation = Null
          /\ displayContent' = Display("quiz_result")
          /\ \A f \in DOMAIN currentContext \ {"mode", "pendingConfirmation"} :
               currentContext'[f] = currentContext[f]]_vars
  /\ [][CtxSubmissionComplete =>
          /\ currentContext'.mode = "idle"
          /\ displayContent' = Display("submission_result")
          /\ \A f \in DOMAIN currentContext \ {"mode", "pendingConfirmation"} :
               currentContext'[f] = currentContext[f]]_vars

\* A quiz is running and an answer waits for its confirmation when
\* quiz_completed arrives (the step leaves this very state).
QuizCompletedWitness ==
  /\ quizScenario = "pending"
  /\ currentContext.mode = "quiz"
  /\ pendingConfirmation.type = "quiz_answer"
  /\ displayContent.type = "quiz"
  /\ ENABLED (MoreUpdates /\ CtxQuizCompleted)

\* The pending confirmation that pending_answer(i, a) leaves.
PendingFor(i, a) ==
  [type |-> "quiz_answer", questionIndex |-> i, answer |-> a,
   answerText |-> AnswerText(a)]

\* C32: answer_confirmed(i, a) changes the answers map only when the pending
\* confirmation is the quiz_answer for the same index i and answer a; with
\* nothing pending, or another index or answer pending, the map is unchanged.
ConfirmedOnlyWhenPendingMatches ==
  [][\A i \in QuestionIndices, a \in Answers :
       (CtxAnswerConfirmed(i, a) /\ pendingConfirmation # PendingFor(i, a)) =>
          currentContext'.quizAnswers = quizAnswers]_vars

\* ------------------------------------------------------ lesson-audio handoff
AudioIds == 1..MaxAudios

\* new Audio(url): an element that is not playing and not referenced
HasFreshAudio == \E e \in AudioIds : e \notin audioElements
FreshAudio == CHOOSE e \in AudioIds :
                e \notin audioElements /\ \A f \in AudioIds : f < e => f \in audioElements

\* stopLessonAudio(): pauses the element lessonAudioRef holds, if any
stopLessonAudio ==
  /\ audioElements' = audioElements \ {lessonAudioRef}
  /\ lessonAudioRef' = 0
  /\ lessonAudioPlaying' = FALSE

\* playPendingLessonAudio(), called with pendingLessonAudio set
playPendingLessonAudio ==
  /\ HasFreshAudio
  /\ readyToPlayLessonAudio' = FALSE
  /\ lessonAudioPlaying' = TRUE
  /\ messages' = addMessage(messages, "system", "Playing lesson audio...")
  /\ audioElements' = audioElements \cup {FreshAudio}
  /\ lessonAudioRef' = FreshAudio
  /\ UNCHANGED <<pendingLessonAudio, pendingLessonAudioRef, aiPaused,
                 turnCompleteSinceLesson>>

\* resumeAI()
resumeAI ==
  /\ stopLessonAudio
  /\ aiPaused' = FALSE
  /\ pendingLessonAudio' = NoUrl
  /\ pendingLessonAudioRef' = NoUrl
  /\ readyToPlayLessonAudio' = FALSE
  /\ messages' = addMessage(messages, "system", "Voice assistant resumed. You can speak now.")
  /\ UNCHANGED turnCompleteSinceLesson

\* The first test of toggleListening: narration is ready and pending.
readyBranch == readyToPlayLessonAudio /\ pendingLessonAudio # NoUrl

\* if (!isConnected) await connect(); await startAudioCapture()
connectAndStartCapture ==
  /\ IF ~isConnected THEN connect
     ELSE UNCHANGED <<sockets, wsRef, isConnecting, connectionError, handlerTranscript>>
  /\ startAudioCapture
  /\ UNCHANGED <<isConnected, timers, sent, rateVars>>

\* toggleListening(): the Space key or the microphone button
UserToggle ==
  /\ IF readyBranch
     THEN /\ playPendingLessonAudio
          /\ UNCHANGED <<connVars, capVars, sent, rateVars>>
     ELSE IF aiPaused
     THEN /\ resumeAI
          /\ connectAndStartCapture
     ELSE /\ IF lessonAudioPlaying THEN stopLessonAudio
             ELSE UNCHANGED <<audioElements, lessonAudioRef, lessonAudioPlaying>>
          /\ IF isListening
             THEN /\ stopAudioCapture
                  /\ UNCHANGED connVars
             ELSE connectAndStartCapture
          /\ UNCHANGED <<pendingLessonAudio, pendingLessonAudioRef,
                         readyToPlayLessonAudio, aiPaused, messages,
                         turnCompleteSinceLesson>>
  /\ UNCHANGED <<currentTranscript, aiTranscript, isProcessing>>
  /\ UNCHANGED <<playVars, ctxVars>>

\* What the three completion callbacks of the narration element share.
narrationOver(e) ==
  /\ e \in audioElements
  /\ audioElements' = audioElements \ {e}
  /\ lessonAudioPlaying' = FALSE
  /\ aiPaused' = FALSE
  /\ lessonAudioRef' = 0
  /\ pendingLessonAudio' = NoUrl
  /\ pendingLessonAudioRef' = NoUrl
  /\ UNCHANGED <<readyToPlayLessonAudio, turnCompleteSinceLesson>>
  /\ UNCHANGED <<currentTranscript, aiTranscript, isProcessing>>
  /\ UNCHANGED <<connVars, capVars, playVars, ctxVars, sent, rateVars>>

\* audio.onended
NarrationEnded(e) ==
  /\ narrationOver(e)
  /\ messages' = addMessage(messages, "system",
                   "Lesson audio finished. Press Space to resume voice interaction.")

\* audio.onerror
NarrationError(e) ==
  /\ narrationOver(e)
  /\ messages' = addMessage(messages, "error", "Failed to play lesson audio.")

\* audio.play() rejected: the catch callback
NarrationPlayRejected(e) ==
  /\ narrationOver(e)
  /\ UNCHANGED messages

\* ------------------------------------------- handleMessage (session, turn)
\* session.created
MsgSessionCreated ==
  /\ CanReceive
  /\ isConnected' = TRUE
  /\ isConnecting' = FALSE
  /\ messages' = addMessage(messages, "system", "Voice assistant ready.")
  /\ UNCHANGED <<sockets, wsRef, connectionError, timers, handlerTranscript>>
  /\ UNCHANGED <<currentTranscript, aiTranscript, isProcessing>>
  /\ UNCHANGED <<capVars, playVars, ctxVars, handoffVars, sent, rateVars>>

\* The handoff test of response.done: narration is pending (read from the ref)
narrationPending == pendingLessonAudioRef # NoUrl

\* response.done of a response that did not fail: the turn is complete.
MsgResponseDone ==
  /\ CanReceive
  /\ isProcessing' = FALSE
  /\ turnCompleteSinceLesson' = TRUE
  /\ IF narrationPending
     THEN /\ readyToPlayLessonAudio' = TRUE
          /\ aiPaused' = TRUE
          /\ messages' = addMessage(messages, "system", "Press Space to start the lesson audio.")
     ELSE UNCHANGED <<readyToPlayLessonAudio, aiPaused, messages>>
  /\ UNCHANGED <<pendingLessonAudio, pendingLessonAudioRef, lessonAudioPlaying,
                 lessonAudioRef, audioElements>>
  /\ UNCHANGED <<currentTranscript, aiTranscript>>
  /\ UNCHANGED <<connVars, capVars, playVars, ctxVars, sent, rateVars>>

\* The lessons of the handoff runs: one with narration, one without.
HandoffLessons == {lesson \in Lessons : lesson.id \in {"L1", "L3"}}

\* The voice page of a sighted user under the toggles, the permission prompt,
\* its sockets opening and closing, lessons started by the backend, completed
\* turns and the narration element.
Next ==
  \/ MountConnectTimer(FALSE)
  \/ \E s \in SocketIds : SocketOpen(s)
  \/ \E s \in SocketIds, code \in CloseCodes, reason \in CloseReasons :
       SocketClose(s, code, reason)
  \/ GrantMic
  \/ DenyMic
  \/ UserToggle
  \/ MsgSessionCreated
  \/ MsgResponseDone
  \/ SameRun /\ \E lesson \in HandoffLessons, has_audio \in BOOLEAN :
                            CtxStartLesson(lesson, has_audio)
  \/ \E e \in AudioIds : NarrationEnded(e)
  \/ \E e \in AudioIds : NarrationError(e)
  \/ \E e \in AudioIds : NarrationPlayRejected(e)

Spec == Init /\ [][Next]_vars

\* -------------------------------------------------- properties of the handoff
\* Live microphone capture: the listening flags, or a capture graph held.
liveCapture == isListening \/ isListeningRef \/ processorRef \/ mediaStreamRef

\* Narration playback: the flag, or an <audio> element that is playing.
narrationPlaying == lessonAudioPlaying \/ audioElements # {}

\* C1: live microphone capture and lesson-narration playback are never both
\* active.
CaptureExcludesNarration == ~(liveCapture /\ lessonAudioPlaying)

\* C9: when response.done arrives while a narration url is pending,
\* readyToPlay and paused become true and live capture is off afterwards.
TurnCompleteForcesCaptureOff ==
  [][(MsgResponseDone /\ narrationPending) =>
       /\ readyToPlayLessonAudio'
       /\ aiPaused'
       /\ ~liveCapture']_vars

\* C10: one toggle with readyToPlay set and a url pending begins narration,
\* clears readyToPlay and starts no capture; with readyToPlay unset it stops
\* any narration and resumes or toggles live listening.
ToggleBeginsNarrationOrListening ==
  [][UserToggle =>
       IF readyToPlayLessonAudio /\ pendingLessonAudio # NoUrl
       THEN /\ lessonAudioPlaying' /\ audioElements' # {}
            /\ ~readyToPlayLessonAudio'
            /\ getUserMediaPending' = getUserMediaPending
            /\ isListening' = isListening
       ELSE /\ ~narrationPlaying'
            /\ \/ getUserMediaPending' = getUserMediaPending + 1
               \/ isListening /\ ~liveCapture']_vars

\* The branch a toggle takes and the flags it leaves, read from the
\* component's own state only (no claim of its own).
ToggleBranchesOnFlags ==
  [][UserToggle =>
       IF readyToPlayLessonAudio /\ pendingLessonAudio # NoUrl
       THEN /\ lessonAudioPlaying' /\ audioElements' # {}
            /\ ~readyToPlayLessonAudio'
            /\ getUserMediaPending' = getUserMediaPending
            /\ isListening' = isListening
       ELSE /\ ~lessonAudioPlaying' /\ lessonAudioRef' = 0
            /\ \/ getUserMediaPending' = getUserMediaPending + 1
               \/ isListening /\ ~liveCapture']_vars

\* C11: readyToPlay is set only when a response.done has arrived after the
\* most recent start_lesson that carried narration, and no toggle starts a
\* narration element between that start_lesson and the response.done.
ReadyOnlyAfterTurnComplete ==
  /\ [](readyToPlayLessonAudio => turnCompleteSinceLesson)
  /\ [][(UserToggle /\ audioElements' # audioElements /\ audioElements \subseteq audioElements')
          => turnCompleteSinceLesson]_vars

\* C33: whenever readyToPlayLessonAudio is set a narration URL is pending, in
\* the state the toggle reads and in the ref response.done reads.
ReadyImpliesNarrationPending ==
  readyToPlayLessonAudio =>
    (pendingLessonAudio # NoUrl /\ pendingLessonAudioRef # NoUrl)

\* ------------------------------------- assistant voice and narration together
\* The page while the assistant's streamed audio is scheduled and a lesson
\* with narration is handed off: chunks, the clock, the completed turn, the
\* toggle and the end of the narration.
NarratedLessons == {lesson \in HandoffLessons : lesson.audio_url # NoUrl}

NextVoices ==
  \/ MountConnectTimer(FALSE)
  \/ \E s \in SocketIds : SocketOpen(s)
  \/ \E d \in Durations : MsgAudioDelta(d)
  \/ PlayAudioResume
  \/ \E i \in 1..MaxChunks : SourceEnded(i)
  \/ Tick
  \/ SameRun /\ \E lesson \in NarratedLessons : CtxStartLesson(lesson, TRUE)
  \/ MsgResponseDone
  \/ UserToggle
  \/ \E e \in AudioIds : NarrationEnded(e)

SpecVoices == Init /\ [][NextVoices]_vars

\* C12: while the narration plays, no streamed assistant segment is playing
\* or scheduled: the active set of the scheduler is empty.
NarrationExcludesAssistantVoice ==
  lessonAudioPlaying => activeAudioSourcesRef = {}

\* ------------------------------------------ handleMessage (the other cases)
\* input_audio_buffer.speech_stopped
MsgSpeechStopped ==
  /\ CanReceive
  /\ currentTranscript' = "Processing..."
  /\ isProcessing' = TRUE
  /\ UNCHANGED <<messages, aiTranscript>>
  /\ UNCHANGED <<connVars, capVars, playVars, ctxVars, handoffVars, sent, rateVars>>

\* Transcripts the backend sends: absent or empty, or some words.
Transcripts == { << >>, <<"words">> }

\* conversation.item.input_audio_transcription.completed
MsgTranscriptionCompleted(transcript) ==
  /\ CanReceive
  /\ IF transcript # << >>
     THEN /\ currentTranscript' = ""
          /\ messages' = addTranscript(messages, "user", transcript)
     ELSE UNCHANGED <<currentTranscript, messages>>
  /\ UNCHANGED <<aiTranscript, isProcessing>>
  /\ UNCHANGED <<connVars, capVars, playVars, ctxVars, handoffVars, sent, rateVars>>

\* conversation.item.input_audio_transcription.failed
MsgTranscriptionFailed ==
  /\ CanReceive
  /\ currentTranscript' = ""
  /\ isProcessing' = FALSE
  /\ UNCHANGED <<messages, aiTranscript>>
  /\ UNCHANGED <<connVars, capVars, playVars, ctxVars, handoffVars, sent, rateVars>>

\* response.created
MsgResponseCreated ==
  /\ CanReceive
  /\ isProcessing' = TRUE
  /\ UNCHANGED <<messages, currentTranscript, aiTranscript>>
  /\ UNCHANGED <<connVars, capVars, playVars, ctxVars, handoffVars, sent, rateVars>>

\* response.audio_transcript.delta: setAiTranscript(prev => prev + data.delta)
MsgTranscriptDelta(delta) ==
  /\ CanReceive
  /\ Len(aiTranscript) < MaxDeltas
  /\ aiTranscript' = IF delta # << >> THEN aiTranscript \o delta ELSE aiTranscript
  /\ UNCHANGED <<messages, currentTranscript, isProcessing>>
  /\ UNCHANGED <<connVars, capVars, playVars, ctxVars, handoffVars, sent, rateVars>>

\* response.audio_transcript.done, received on socket s: the test and the
\* fallback text read the aiTranscript the handler of s closed over.
MsgTranscriptDone(s, transcript) ==
  /\ sockets[s] = "OPEN"
  /\ IF handlerTranscript[s] # << >> \/ transcript # << >>
     THEN /\ messages' = addTranscript(messages, "assistant",
                            IF transcript # << >> THEN transcript ELSE handlerTranscript[s])
          /\ aiTranscript' = << >>
     ELSE UNCHANGED <<messages, aiTranscript>>
  /\ isProcessing' = FALSE
  /\ UNCHANGED currentTranscript
  /\ UNCHANGED <<connVars, capVars, playVars, ctxVars, handoffVars, sent, rateVars>>

\* error: addMessage('error', data.error?.message || 'An error occurred')
MsgError ==
  /\ CanReceive
  /\ messages' = addMessage(messages, "error", "An error occurred")
  /\ isProcessing' = FALSE
  /\ UNCHANGED <<currentTranscript, aiTranscript>>
  /\ UNCHANGED <<connVars, capVars, playVars, ctxVars, handoffVars, sent, rateVars>>

\* ------------------------------------------- handleContextUpdate (dispatch)
\* The data of a context_update: the action and the fields its branch reads.
Upd(action, index, answer, lesson, has_audio, arg) ==
  [action |-> action, questionIndex |-> index, answer |-> answer,
   lesson |-> lesson, has_audio |-> has_audio, arg |-> arg]

ContextUpdates ==
  {Upd("start_quiz", n, "", NoLesson, FALSE, "") : n \in 0..MaxQ}
  \cup {Upd("show_question", i, "", NoLesson, FALSE, "") : i \in QuestionIndices}
  \cup {Upd(action, i, a, NoLesson, FALSE, "") :
          action \in {"pending_answer", "answer_confirmed"},
          i \in QuestionIndices, a \in Answers}
  \cup {Upd("start_lesson", 0, "", lesson, has_audio, "") :
          lesson \in Lessons, has_audio \in BOOLEAN}
  \cup {Upd("confirm_submission", 0, "", NoLesson, FALSE, submissionType) :
          submissionType \in {"quiz", "assignment"}}
  \cup {Upd("navigate", 0, "", NoLesson, FALSE, url) : url \in {"null", "/student/courses"}}
  \cup {Upd(action, 0, "", NoLesson, FALSE, "") :
          action \in {"answer_cancelled", "quiz_completed", "start_assignment",
                      "submission_complete", "clear_display", "unknown"}
                     \cup {show[1] : show \in ShowActions}}

\* The if / else-if chain on data.action.
handleContextUpdate(data) ==
  CASE data.action = "start_quiz" -> CtxStartQuiz(data.questionIndex)
    [] data.action = "show_question" -> CtxShowQuestion(data.questionIndex)
    [] data.action = "pending_answer" -> CtxPendingAnswer(data.questionIndex, data.answer)
    [] data.action = "answer_confirmed" -> CtxAnswerConfirmed(data.questionIndex, data.answer)
    [] data.action = "answer_cancelled" -> CtxAnswerCancelled
    [] data.action = "quiz_completed" -> CtxQuizCompleted
    [] data.action = "start_lesson" -> CtxStartLesson(data.lesson, data.has_audio)
    [] data.action = "start_assignment" -> CtxStartAssignment
    [] data.action = "confirm_submission" -> CtxConfirmSubmission(data.arg)
    [] data.action = "submission_complete" -> CtxSubmissionComplete
    [] data.action \in {show[1] : show \in ShowActions} ->
         CtxShow(CHOOSE show \in ShowActions : show[1] = data.action)
    [] data.action = "navigate" -> CtxNavigate(data.arg)
    [] data.action = "clear_display" -> CtxClearDisplay
    [] OTHER -> CtxUnknownAction

\* The transition function: what the updater of data's branch returns for a
\* context ctx (the branches without setCurrentContext return it as it is).
Transition(ctx, data) ==
  CASE data.action = "start_quiz" -> startQuiz(ctx, "quiz", QuestionList(data.questionIndex))
    [] data.action = "show_question" -> showQuestion(ctx, data.questionIndex)
    [] data.action = "pending_answer" -> pendingAnswer(ctx, data.questionIndex, data.answer)
    [] data.action = "answer_confirmed" -> answerConfirmed(ctx, data.questionIndex, data.answer)
    [] data.action = "answer_cancelled" -> answerCancelled(ctx)
    [] data.action = "quiz_completed" -> quizCompleted(ctx)
    [] data.action = "start_lesson" -> startLesson(ctx, data.lesson)
    [] data.action = "start_assignment" -> startAssignment(ctx, "assignment")
    [] data.action = "confirm_submission" -> confirmSubmission(ctx, data.arg)
    [] data.action = "submission_complete" -> submissionComplete(ctx)
    [] data.action = "clear_display" -> clearDisplay(ctx)
    [] OTHER -> ctx

RECURSIVE FoldContext(_)
FoldContext(seq) ==
  IF seq = << >> THEN NoContext
  ELSE Transition(FoldContext(SubSeq(seq, 1, Len(seq) - 1)), seq[Len(seq)])

\* A context_update of a run that records the order of arrival.
Arrive(data) ==
  /\ Len(arrived) < MaxArrived
  /\ arrived' = Append(arrived, data)
  /\ UNCHANGED <<updates, renderedContext>>

\* React renders: the callbacks of the new render see the context as it is.
Render ==
  /\ renderedContext # currentContext
  /\ renderedContext' = currentContext
  /\ UNCHANGED <<currentContext, displayContent, navigated, quizScenario, updates, arrived>>
  /\ UNCHANGED <<connVars, capVars, playVars, handoffVars, logVars, sent, rateVars>>

\* The context under updates that arrive faster than the page renders.
NextOrder ==
  \/ MountConnectTimer(FALSE)
  \/ \E s \in SocketIds : SocketOpen(s)
  \/ \E data \in ContextUpdates : Arrive(data) /\ handleContextUpdate(data)
  \/ Render

SpecOrder == Init /\ [][NextOrder]_vars

\* C18: the context is the fold of the transition function over the updates
\* received, in their order of arrival: none is lost, none is reordered.
ContextIsFoldOfArrivals == currentContext = FoldContext(arrived)

\* Two updates arrived between two renders and both are in the context.
ArrivalOrderWitness ==
  /\ Len(arrived) = 2
  /\ arrived[1].action = "answer_confirmed" /\ arrived[2].action = "pending_answer"
  /\ renderedContext = NoContext
  /\ quizAnswers # NoAnswers
  /\ pendingConfirmation # Null

\* ------------------------------------------------- handleMessage (dispatch)
\* The case labels of the switch on data.type.
DispatchTable ==
  { "session.created", "session.updated", "input_audio_buffer.speech_started",
    "input_audio_buffer.speech_stopped",
    "conversation.item.input_audio_transcription.completed",
    "conversation.item.input_audio_transcription.failed",
    "input_audio_buffer.committed", "conversation.item.created", "response.created",
    "response.audio_transcript.delta", "response.audio_transcript.done",
    "response.audio.delta", "response.audio.done",
    "response.function_call_arguments.done", "response.done", "context_update",
    "display_update", "error" }

\* Types the switch has no case for: other events of the speech service, a
\* label in another spelling, a message without type.
UnrecognizedTypes ==
  { "rate_limits.updated", "Session.Created", "undefined" }

\* Mutant of caseOf: a type without a case is handled as an error message.
caseOfErrorFallback(type) == IF type \in DispatchTable THEN type ELSE "error"

\* The case a type selects: its own label (compared with ===) or the default.
caseOf(type) == IF type \in DispatchTable THEN type ELSE "default"

\* A parsed inbound message: its type and the fields the cases read.
Msg(type, delta, transcript, data) ==
  [type |-> type, delta |-> delta, transcript |-> transcript, data |-> data]

NoData == Upd("unknown", 0, "", NoLesson, FALSE, "")

\* The context updates of the router runs.
RouterUpdates ==
  {data \in ContextUpdates :
     \/ data.action \in {"answer_cancelled", "unknown"}
     \/ data.action = "start_lesson" /\ data.has_audio /\ data.lesson \in NarratedLessons}

RouterMessages ==
  {Msg(type, 0, << >>, NoData) :
     type \in (DispatchTable \cup UnrecognizedTypes) \ {"context_update"}}
  \cup {Msg("response.audio.delta", MaxDur, << >>, NoData)}
  \cup {Msg(type, 0, <<"words">>, NoData) :
          type \in {"conversation.item.input_audio_transcription.completed",
                    "response.audio_transcript.delta", "response.audio_transcript.done"}}
  \cup {Msg("context_update", 0, << >>, data) : data \in RouterUpdates}

\* handleMessage(event) on socket s, event.data parsed to data.
handleMessage(s, data) ==
  /\ sockets[s] = "OPEN"
  /\ LET case == caseOf(data.type)
     IN CASE case = "session.created" -> MsgSessionCreated
          [] case = "input_audio_buffer.speech_started" -> MsgSpeechStarted
          [] case = "input_audio_buffer.speech_stopped" -> MsgSpeechStopped
          [] case = "conversation.item.input_audio_transcription.completed" ->
               MsgTranscriptionCompleted(data.transcript)
          [] case = "conversation.item.input_audio_transcription.failed" ->
               MsgTranscriptionFailed
          [] case = "response.created" -> MsgResponseCreated
          [] case = "response.audio_transcript.delta" -> MsgTranscriptDelta(data.transcript)
          [] case = "response.audio_transcript.done" -> MsgTranscriptDone(s, data.transcript)
          [] case = "response.audio.delta" -> MsgAudioDelta(data.delta)
          [] case = "response.audio.done" -> MsgAudioDone
          [] case = "response.done" -> MsgResponseDone
          [] case = "context_update" -> SameRun /\ handleContextUpdate(data.data)
          [] case = "display_update" -> MsgDisplayUpdate
          [] case = "error" -> MsgError
          [] OTHER -> UNCHANGED vars

\* The event router under every message type, recognized or not.
NextRouter ==
  \/ MountConnectTimer(FALSE)
  \/ \E s \in SocketIds : SocketOpen(s)
  \/ \E s \in SocketIds, data \in RouterMessages : handleMessage(s, data)

SpecRouter == Init /\ [][NextRouter]_vars

\* C13: a message whose type has no case in the switch leaves every state
\* variable as it was (the handler has no state in which it fails: the model
\* of handleMessage is defined for every such message on an open socket).
UnrecognizedLeavesStateUnchanged ==
  [][\A s \in SocketIds, type \in UnrecognizedTypes :
       (type \notin DispatchTable /\ handleMessage(s, Msg(type, 0, << >>, NoData)))
         => UNCHANGED vars]_vars

\* A state with a session, a conversation and a dialogue going, in which an
\* unrecognized message is handled (the step leaves this very state).
UnrecognizedWitness ==
  /\ CanReceive /\ isConnected
  /\ messages # << >> /\ aiTranscript # << >>
  /\ playAudioPending # << >>
  /\ pendingLessonAudio # NoUrl
  /\ \E s \in SocketIds, type \in UnrecognizedTypes :
       ENABLED handleMessage(s, Msg(type, 0, << >>, NoData))

\* The context_update messages of the router runs.
ContextMessages == {Msg("context_update", 0, << >>, data) : data \in RouterUpdates}

\* C38: a step that changes the dialogue context (mode, lesson, quiz,
\* assignment, questions, question index, answers, pendingConfirmation) is the
\* handling of a context_update: the transcript, audio, response, session,
\* display_update and error messages leave it as it was.
OnlyContextUpdatesChangeContext ==
  [][currentContext' # currentContext =>
       \E s \in SocketIds, data \in ContextMessages : handleMessage(s, data)]_vars

\* A lesson is active and, since it started, a display_update has replaced its
\* display, the assistant's words and audio have arrived and a message was
\* logged: the lesson is still the context.
ContextKeptWitness ==
  /\ currentContext.mode = "lesson" /\ currentContext.lesson \in NarratedLessons
  /\ displayContent = Display("content")
  /\ aiTranscript # << >> /\ playAudioPending # << >>
  /\ messages # << >> /\ messages[Len(messages)].role = "error"

\* C29: response.audio_transcript.done with deltas accumulated appends one
\* assistant message (the transcript of the event, or the accumulated text
\* when the event carries none) and empties the buffer; a completed
\* transcription appends one user message and clears the user buffer.
TranscriptDoneFlushesBuffer ==
  [][/\ \A s \in SocketIds, transcript \in Transcripts :
          (MsgTranscriptDone(s, transcript) /\ aiTranscript # << >>) =>
            /\ aiTranscript' = << >>
            /\ messages' = Push(messages,
                  [role |-> "assistant", content |-> "transcript",
                   text |-> IF transcript # << >> THEN transcript ELSE aiTranscript],
                  MaxLog)
     /\ \A transcript \in Transcripts \ {<< >>} :
          MsgTranscriptionCompleted(transcript) =>
            /\ currentTranscript' = ""
            /\ messages' = Push(messages,
                  [role |-> "user", content |-> "transcript", text |-> transcript],
                  MaxLog)]_vars

\* ------------------------------------------------ handleMessage (try / catch)
\* Messages whose handling throws: text that JSON.parse rejects, the JSON
\* value null (data.type throws), a context_update without data (data.action
\* throws), and a start_lesson with has_audio whose audio_url is not a string
\* (audio_url.startsWith throws).
MalformedKinds ==
  { "unparsable", "null", "context_update without data",
    "start_lesson with audio_url not a string" }

BadLesson == [id |-> "L4", audio_url |-> <<"not a string", "5">>]

\* handleMessage(event) for such a message: the catch block logs; what was
\* handed to setCurrentContext and setDisplayContent before the throw stays
\* queued and is applied.
MsgMalformed(kind) ==
  /\ CanReceive
  /\ IF kind = "start_lesson with audio_url not a string"
     THEN /\ currentContext' = startLesson(prevContext, BadLesson)
          /\ displayContent' = Display("lesson")
          /\ quizScenario' = ScenarioStep(quizScenario, "start_lesson", 0, "")
          /\ UNCHANGED <<navigated, updates, arrived, renderedContext>>
          /\ UNCHANGED <<connVars, capVars, playVars, handoffVars, logVars, sent, rateVars>>
     ELSE UNCHANGED vars

\* The messages that follow or precede a malformed one in these runs.
FollowingMessages ==
  {Msg(type, 0, <<"words">>, NoData) :
     type \in {"session.created", "response.done", "input_audio_buffer.speech_stopped",
               "conversation.item.input_audio_transcription.completed"}}
  \cup {Msg("context_update", 0, << >>, data) : data \in RouterUpdates}

\* The router under malformed messages between well-formed ones.
NextMalformed ==
  \/ MountConnectTimer(FALSE)
  \/ \E s \in SocketIds : SocketOpen(s)
  \/ \E kind \in MalformedKinds : MsgMalformed(kind)
  \/ \E s \in SocketIds, data \in FollowingMessages : handleMessage(s, data)

SpecMalformed == Init /\ [][NextMalformed]_vars

\* C30: a message that does not parse or whose payload is malformed changes
\* nothing: the sockets, the session, the dialogue context, the display, the
\* playback, the handoff and the log are as before.
MalformedMessageDropped ==
  [][\A kind \in MalformedKinds :
       MsgMalformed(kind) =>
         UNCHANGED <<connVars, capVars, playVars, currentContext, displayContent,
                     navigated, handoffVars, logVars, sent>>]_vars

\* ------------------------------------------------- the transport session
\* The session of the voice page of any user: the mount timers, the sockets
\* opening, failing and closing, the greeting of the backend, the toggle, the
\* retry button and the permission prompt.
NextSession ==
  \/ \E is_blind \in BOOLEAN : MountConnectTimer(is_blind)
  \/ AutoStartTimer
  \/ \E s \in SocketIds : SocketOpen(s)
  \/ \E s \in SocketIds : SocketError(s)
  \/ \E s \in SocketIds, code \in CloseCodes, reason \in CloseReasons :
       SocketClose(s, code, reason)
  \/ MsgSessionCreated
  \/ UserToggle
  \/ RetryClick
  \/ GrantMic
  \/ DenyMic

SpecSession == Init /\ [][NextSession]_vars

\* C14: a close with code 1000 leaves the connection error as it was; a close
\* with another code sets it to a non-empty text that carries the reason of
\* the close event, or a fallback text when the reason is empty.
CloseSetsErrorUnlessNormal ==
  [][\A s \in SocketIds, code \in CloseCodes, reason \in CloseReasons :
       SocketClose(s, code, reason) =>
         IF code = 1000
         THEN connectionError' = connectionError
         ELSE /\ connectionError' \notin {"null", "", "Connection closed: "}
              /\ reason # "" => connectionError' = "Connection closed: " \o reason]_vars

\* A socket closed with another code and no reason, after the session was up.
CloseErrorWitness ==
  /\ \E s \in SocketIds : sockets[s] = "CLOSED"
  /\ ~isConnected
  /\ messages # << >>
  /\ connectionError = "Connection closed: Unknown reason"

\* C34: after a close event that leaves no socket connecting or open the page
\* is not Connecting, whether or not session.created or an error event came
\* before the close.
CloseEndsConnecting ==
  [][\A s \in SocketIds, code \in CloseCodes, reason \in CloseReasons :
       (/\ SocketClose(s, code, reason)
        /\ \A t \in SocketIds : sockets'[t] \notin {"CONNECTING", "OPEN"}) =>
          ~isConnecting']_vars

\* C36: when the permission is refused the start of capture ends with the
\* error set, both listening flags false, no processor installed and no stream
\* held, and the step sends nothing.
MicRefusedLeavesCaptureOff ==
  [][DenyMic =>
       /\ connectionError' = "Microphone access denied"
       /\ ~isListening' /\ ~isListeningRef'
       /\ ~processorRef' /\ ~mediaStreamRef'
       /\ sent' = sent]_vars

\* The refused start itself installs nothing: with no capture graph live when
\* the permission is refused, capture is off afterwards.
MicRefusedAloneLeavesCaptureOff ==
  [][(DenyMic /\ liveCaptureGraphs = 0) =>
       /\ connectionError' = "Microphone access denied"
       /\ ~isListening' /\ ~isListeningRef'
       /\ ~processorRef' /\ ~mediaStreamRef'
       /\ sent' = sent]_vars

\* ------------------------------------------- the modal RealtimeVoiceAssistant
\* The modal keeps the same state cells and refs as the page, and its connect,
\* onerror, onclose, session.created case and capture functions are the same
\* code; its toggleListening is the last branch of the page's (the handoff
\* flags stay as initialized).  It has no mount timer: it connects from an
\* effect that runs again whenever isOpen, isConnected, isConnecting or
\* connect changes.  isOpen stays true in these runs.
ModalConnectEffect ==
  /\ ~isConnected /\ ~isConnecting
  /\ connect
  /\ UNCHANGED <<isConnected, timers, capVars, playVars, ctxVars, handoffVars, logVars, sent, rateVars>>

NextModal ==
  \/ ModalConnectEffect
  \/ \E s \in SocketIds : SocketOpen(s)
  \/ \E s \in SocketIds : SocketError(s)
  \/ \E s \in SocketIds, code \in CloseCodes, reason \in CloseReasons :
       SocketClose(s, code, reason)
  \/ MsgSessionCreated
  \/ UserToggle
  \/ RetryClick
  \/ GrantMic
  \/ DenyMic

SpecModal == Init /\ [][NextModal]_vars

\* C15: once a connection has closed or failed, a step that creates a new
\* socket is a step of the listening toggle or of the retry button.
NoAutomaticReconnect ==
  [][((\E s \in SocketIds : sockets[s] \in {"CLOSED", "FAILED"})
        /\ (\E s \in SocketIds : sockets[s] = "NONE" /\ sockets'[s] = "CONNECTING"))
       => (UserToggle \/ RetryClick)]_vars

\* ------------------------------------ properties of sockets and capture graphs
\* The sockets created by connect() that are connecting or open; each has
\* handleMessage as its onmessage.
liveSockets == {s \in SocketIds : sockets[s] \in {"CONNECTING", "OPEN"}}

\* C16: at most one socket created by the component is connecting or open.
AtMostOneLiveSocket == Cardinality(liveSockets) <= 1

\* C17: at most one microphone stream with its processor exists: a start of
\* capture while a graph is held or a permission request is pending adds none.
AtMostOneCaptureGraph == liveCaptureGraphs <= 1

\* --------------------------------------------- capture: resample and encode
Min(a, b) == IF a <= b THEN a ELSE b

\* Math.round(num / den) for num >= 0, den > 0: halves round up
Round(num, den) == (2 * num + den) \div (2 * den)

\* What reading a typed array beyond its end stores in a Float32Array.
NaN == 0 - 4 * One

\* Mutant of Resample: the frame is sent at the rate of the device.
ResampleCopy(inputData, sourceSampleRate) == inputData

\* The frame at targetSampleRate: nearest-sample decimation by
\* ratio = sourceSampleRate / targetSampleRate, or a copy at equal rates.
Resample(inputData, sourceSampleRate) ==
  IF sourceSampleRate # TargetSampleRate
  THEN LET newLength == Round(Len(inputData) * TargetSampleRate, sourceSampleRate)
       IN [k \in 1..newLength |->
             LET index == Round((k - 1) * sourceSampleRate, TargetSampleRate)
             IN IF index < Len(inputData) THEN inputData[index + 1] ELSE NaN]
  ELSE inputData

\* Math.max(-1, Math.min(1, x)); NaN stays NaN
Clamp(x) == IF x = NaN THEN NaN ELSE Max(0 - One, Min(One, x))

\* s < 0 ? s * 0x8000 : s * 0x7fff, as the whole number setInt16 keeps of it
\* (the fraction is dropped, towards zero); NaN is stored as 0
Scaled(s) ==
  IF s = NaN THEN 0
  ELSE IF s < 0 THEN 0 - (((0 - s) * NegativeScale) \div One)
  ELSE (s * PositiveScale) \div One

\* DataView.setInt16: the value modulo 2^16, read as a signed 16-bit number
ToInt16(n) == ((n + 32768) % 65536) - 32768

\* Mutant of floatTo16BitPCM: the samples are not clamped.
floatTo16BitPCMUnclamped(float32Array) ==
  [k \in DOMAIN float32Array |-> ToInt16(Scaled(float32Array[k]))]

floatTo16BitPCM(float32Array) ==
  [k \in DOMAIN float32Array |-> ToInt16(Scaled(Clamp(float32Array[k])))]

\* The decode of playAudio: int16 / 32768.0, in steps of 1 / One
DecodePCM16(int16) == (int16 * One) \div DecodeScale

\* Rates a browser runs the context at: the one asked for, or its own.
SampleRates == {TargetSampleRate, 48000, 44100}

\* Samples: -1.5, -1, 0, just above 0.5, 1, 1.5
Samples == {0 - (3 * One) \div 2, 0 - One, 0, One \div 2 + 1, One, (3 * One) \div 2}

\* Frames of the fixed, even size of the ScriptProcessor.
Frames ==
  UNION {[1..(2 * h) -> Samples] : h \in 1..MaxHalfFrame}

\* Mutant of frameDropped: the state of the socket is not looked at.
frameDroppedIgnoringSocket == ~isListeningRef

\* if (!isListeningRef.current || wsRef.current?.readyState !== OPEN) return
frameDropped == ~isListeningRef \/ ~wsOpen

\* onaudioprocess(event): the frame is dropped unless listening with an open
\* socket; otherwise it is resampled, encoded and sent.
AudioProcess ==
  /\ liveCaptureGraphs > 0
  /\ IF frameDropped
     THEN UNCHANGED <<audioData, pcmBuffer, sent>>
     ELSE /\ audioData' = Resample(inputBuffer, sampleRate)
          /\ pcmBuffer' = floatTo16BitPCM(Resample(inputBuffer, sampleRate))
          /\ sent' = Push(sent, "input_audio_buffer.append", MaxSent)
  /\ UNCHANGED <<sampleRate, inputBuffer>>
  /\ UNCHANGED <<isListening, isListeningRef, mediaStreamRef, processorRef,
                 audioContextRef, getUserMediaPending, liveCaptureGraphs>>
  /\ UNCHANGED <<connVars, playVars, ctxVars, handoffVars, logVars, rateVars>>

InitCapture == \E frame \in Frames, rate \in SampleRates : InitWith(frame, rate)

\* The capture pipeline of a user with is_blind: connect, auto-start, the
\* permission, then the frames, for every frame and rate.
NextCapture ==
  \/ MountConnectTimer(TRUE)
  \/ \E s \in SocketIds : SocketOpen(s)
  \/ AutoStartTimer
  \/ GrantMic
  \/ AudioProcess

SpecCapture == InitCapture /\ [][NextCapture]_vars

\* C19: a frame resampled from 48 kHz has half the samples, sample i being
\* input sample 2i (the same for the same input, the result being a function
\* of the frame); at 24 kHz the result is a copy of the frame.
ResampleHalvesOrCopies ==
  pcmBuffer # << >> =>
    /\ audioData = Resample(inputBuffer, sampleRate)
    /\ sampleRate = 48000 =>
         /\ 2 * Len(audioData) = Len(inputBuffer)
         /\ \A i \in 0..(Len(audioData) - 1) : audioData[i + 1] = inputBuffer[2 * i + 1]
    /\ sampleRate = 24000 => audioData = inputBuffer

\* A frame of four samples from a 48 kHz context was sent as its first and
\* third sample, which differ from the two dropped.
ResampleWitness ==
  /\ sampleRate = 48000 /\ Len(inputBuffer) = 4
  /\ pcmBuffer # << >>
  /\ audioData = <<inputBuffer[1], inputBuffer[3]>>
  /\ inputBuffer[1] # inputBuffer[2] /\ inputBuffer[3] # inputBuffer[4]
  /\ inputBuffer[1] # inputBuffer[3]

\* C20: every encoded sample lies in -32768..32767 and is the scaled clamped
\* sample itself (nothing wraps); a sample that is 0, or that is clipped to
\* +1.0 or -1.0, is recovered by the decode within 1/32768.
EncodeDecodeWithinOneStep ==
  \A k \in DOMAIN pcmBuffer :
    LET x == audioData[k]
        d == DecodePCM16(pcmBuffer[k])
    IN /\ pcmBuffer[k] \in (0 - 32768)..32767
       /\ pcmBuffer[k] = Scaled(Clamp(x))
       /\ (x = 0 \/ x >= One \/ x <= 0 - One) =>
            /\ (d - Clamp(x)) * 32768 <= One
            /\ (Clamp(x) - d) * 32768 <= One

\* A frame with a sample above +1.0 and one below -1.0 was encoded to the two
\* ends of the 16-bit range.
EncodeWitness ==
  /\ Len(pcmBuffer) >= 2
  /\ \E j, k \in DOMAIN pcmBuffer :
       /\ audioData[j] > One /\ pcmBuffer[j] = 32767
       /\ audioData[k] < 0 - One /\ pcmBuffer[k] = 0 - 32768

\* ------------------------------------------------------ the outbound messages
\* The page while the assistant speaks and the user barges in: the chunks of
\* the assistant, speech_started, and a toggle that may open a second socket.
NextBargeIn ==
  \/ MountConnectTimer(FALSE)
  \/ \E s \in SocketIds : SocketOpen(s)
  \/ UserToggle
  \/ \E d \in Durations : MsgAudioDelta(d)
  \/ PlayAudioResume
  \/ MsgSpeechStarted

SpecBargeIn == Init /\ [][NextBargeIn]_vars

\* The page while it captures: the sockets opening and closing, the toggle
\* and the permission, the frames of the microphone, and a lesson with
\* narration that stops capture.
NextUplink ==
  \/ MountConnectTimer(FALSE)
  \/ \E s \in SocketIds : SocketOpen(s)
  \/ \E s \in SocketIds : SocketClose(s, 1006, "")
  \/ MsgSessionCreated
  \/ UserToggle
  \/ GrantMic
  \/ AudioProcess
  \/ SameRun /\ \E lesson \in NarratedLessons : CtxStartLesson(lesson, TRUE)

SpecUplink == Init /\ [][NextUplink]_vars

\* The last outbound message.
lastSent == IF sent = << >> THEN "none" ELSE sent[Len(sent)]

\* C21: a speech_started message is handled in one step that stops every
\* active handle, empties the active set and the queue, resets the cursor and
\* the speaking flag, and sends one response.cancel when the current socket
\* is open, nothing when it is not.
SpeechStartedInterruptsAndCancels ==
  [][MsgSpeechStarted =>
       /\ \A i \in activeAudioSourcesRef : segments'[i].state = "stopped"
       /\ activeAudioSourcesRef' = {} /\ audioQueueRef' = << >>
       /\ audioPlaybackTimeRef' = 0 /\ ~isSpeaking'
       /\ IF wsRef # 0 /\ sockets[wsRef] = "OPEN"
          THEN sent' = Push(sent, "response.cancel", MaxSent)
          ELSE sent' = sent]_vars

\* A scheduled chunk was stopped by a barge-in and the cancel went out on the
\* open socket.
SpeechStartedWitness ==
  /\ wsOpen
  /\ \E i \in DOMAIN segments : segments[i].state = "stopped"
  /\ activeAudioSourcesRef = {} /\ ~isSpeaking
  /\ lastSent = "response.cancel"

\* A barge-in was handled while the current socket was still connecting (the
\* message came in on an earlier socket): nothing was sent.
SpeechStartedClosedWitness ==
  /\ ~wsOpen /\ CanReceive
  /\ currentTranscript = "Listening..."
  /\ sent = << >>

\* C23: a frame handed to onaudioprocess is sent as one append in that step
\* when listening is on and the current socket is open, and otherwise leaves
\* nothing behind; an append goes out only in such a step.
FrameSentIffListeningAndOpen ==
  [][/\ AudioProcess =>
          IF isListeningRef /\ wsRef # 0 /\ sockets[wsRef] = "OPEN"
          THEN /\ sent' = Push(sent, "input_audio_buffer.append", MaxSent)
               /\ pcmBuffer' = floatTo16BitPCM(Resample(inputBuffer, sampleRate))
          ELSE UNCHANGED vars
     /\ (sent' # sent /\ sent' # << >> /\ sent'[Len(sent')] = "input_audio_buffer.append")
          => /\ AudioProcess
             /\ isListeningRef /\ liveCaptureGraphs > 0
             /\ wsRef # 0 /\ sockets[wsRef] = "OPEN"]_vars

\* A frame went out, capture was stopped (the commit followed the append), and
\* the graph of an earlier start is still delivering frames, which are dropped.
FrameDroppedWitness ==
  /\ sent = <<"input_audio_buffer.append", "input_audio_buffer.commit">>
  /\ ~isListeningRef /\ wsOpen
  /\ liveCaptureGraphs > 0
  /\ ENABLED AudioProcess

\* ------------------------------------------- properties of capture and handoff
\* C22: a step in which capture goes from listening to stopped while the
\* current socket is open, and stays open, releases the processor and the
\* stream and sends one input_audio_buffer.commit.
CaptureStopCommits ==
  [][(isListeningRef /\ ~isListeningRef' /\ wsOpen
        /\ wsRef' # 0 /\ sockets'[wsRef'] = "OPEN")
       => /\ ~processorRef' /\ ~mediaStreamRef' /\ ~isListening'
          /\ sent' = Push(sent, "input_audio_buffer.commit", MaxSent)]_vars

\* The page under every lesson the backend can start, with and without the
\* has_audio flag, while the user toggles capture and narration.
NextLesson ==
  \/ MountConnectTimer(FALSE)
  \/ \E s \in SocketIds : SocketOpen(s)
  \/ UserToggle
  \/ GrantMic
  \/ SameRun /\ \E lesson \in Lessons, has_audio \in BOOLEAN :
                  CtxStartLesson(lesson, has_audio)
  \/ MsgResponseDone

SpecLesson == Init /\ [][NextLesson]_vars

\* C24: start_lesson sets the mode to lesson and starts no narration; with
\* has_audio and an audio url it stores the full url as the pending narration
\* and leaves no live capture; otherwise it leaves the handoff and the capture
\* as they were.
StartLessonStoresUrlWithoutPlaying ==
  [][\A lesson \in Lessons, has_audio \in BOOLEAN :
       CtxStartLesson(lesson, has_audio) =>
         /\ currentContext'.mode = "lesson" /\ currentContext'.lesson = lesson
         /\ UNCHANGED <<lessonAudioPlaying, audioElements, lessonAudioRef,
                        readyToPlayLessonAudio, aiPaused>>
         /\ IF has_audio /\ lesson.audio_url # NoUrl
            THEN /\ pendingLessonAudio' =
                      IF lesson.audio_url[1] = "http" THEN lesson.audio_url
                      ELSE <<"VITE_API_URL", lesson.audio_url[2]>>
                 /\ pendingLessonAudioRef' = pendingLessonAudio'
                 /\ ~isListeningRef' /\ ~isListening'
                 /\ ~processorRef' /\ ~mediaStreamRef'
                 /\ isListeningRef => liveCaptureGraphs' = liveCaptureGraphs - 1
            ELSE UNCHANGED <<pendingLessonAudio, pendingLessonAudioRef, isListeningRef,
                             isListening, processorRef, mediaStreamRef,
                             liveCaptureGraphs>>]_vars

\* A lesson with narration arrived while the page was capturing on an open
\* socket: the url is pending, capture is off (no toggle stopped it: nothing
\* was sent), and no narration plays.
StartLessonWitness ==
  /\ currentContext.mode = "lesson"
  /\ pendingLessonAudio = <<"VITE_API_URL", "/media/l1.mp3">>
  /\ ~isListeningRef /\ ~isListening /\ ~mediaStreamRef /\ liveCaptureGraphs = 0
  /\ audioContextRef /\ getUserMediaPending = 0 /\ connectionError = "null"
  /\ wsOpen /\ \A s \in SocketIds : sockets[s] # "CLOSED"
  /\ sent = << >>
  /\ ~lessonAudioPlaying /\ audioElements = {} /\ ~readyToPlayLessonAudio

\* C25: when the narration ends, fails or is refused by play(), the pending
\* url is cleared, paused and playing are false, and one system message that
\* invites the user to resume is appended to the log.
NarrationOverInvitesToResume ==
  [][\A e \in AudioIds :
       (NarrationEnded(e) \/ NarrationError(e) \/ NarrationPlayRejected(e)) =>
         /\ pendingLessonAudio' = NoUrl /\ pendingLessonAudioRef' = NoUrl
         /\ ~aiPaused' /\ ~lessonAudioPlaying'
         /\ messages' = Push(messages,
               [role |-> "system",
                content |-> "Lesson audio finished. Press Space to resume voice interaction.",
                text |-> << >>], MaxLog)]_vars

\* C27: while a narration url is pending or readyToPlay is set, the mode is
\* lesson and the pending url is the audio url of the lesson of the context.
PendingNarrationIsOfActiveLesson ==
  (pendingLessonAudio # NoUrl \/ readyToPlayLessonAudio) =>
    /\ currentContext.mode = "lesson"
    /\ currentContext.lesson.audio_url # NoUrl
    /\ pendingLessonAudio = FullAudioUrl(currentContext.lesson.audio_url)

\* C28: at most one narration element is playing.
AtMostOneNarrationElement == Cardinality(audioElements) <= 1

\* ----------------------------------------- handleMessage (response failed)
\* The characters of the retry-after text the pattern /([\d.]+)s/ captures.
DigitChars == {"0", "1"}
NumberChars == DigitChars \cup {"."}

DigitVal(c) == IF c = "1" THEN 1 ELSE 0

\* Captures of up to MaxDigits characters.
NumberTexts == UNION {[1..n -> NumberChars] : n \in 1..MaxDigits}

\* errorDetails.message: absent, a text the pattern does not match (no
\* number, or a number in another unit), or "... try again in <capture>s".
NoCapture == << >>
RateMessages ==
  {[present |-> FALSE, capture |-> NoCapture],
   [present |-> TRUE, capture |-> NoCapture]}
  \cup {[present |-> TRUE, capture |-> t] : t \in NumberTexts}

\* The length of the longest prefix of t made of digits.
RECURSIVE DigitRun(_)
DigitRun(t) ==
  IF t = << >> \/ Head(t) \notin DigitChars THEN 0 ELSE 1 + DigitRun(Tail(t))

\* The value of a run of digits.
RECURSIVE DigitsValue(_)
DigitsValue(t) ==
  IF t = << >> THEN 0 ELSE DigitsValue(SubSeq(t, 1, Len(t) - 1)) * 10 + DigitVal(t[Len(t)])

\* Math.ceil(parseFloat(text)): parseFloat reads digits, at most one point and
\* digits, and stops at the first character that does not continue a number;
\* with no digit read the result is NaN, and Math.ceil(NaN) is NaN.
CeilParseFloat(t) ==
  LET n == DigitRun(t)
      whole == SubSeq(t, 1, n)
      afterPoint == IF n < Len(t) /\ t[n + 1] = "." THEN SubSeq(t, n + 2, Len(t)) ELSE << >>
      m == DigitRun(afterPoint)
      fraction == SubSeq(afterPoint, 1, m)
  IN IF n = 0 /\ m = 0 THEN NaN
     ELSE DigitsValue(whole) + (IF DigitsValue(fraction) > 0 THEN 1 ELSE 0)

DefaultWait == 5

\* waitMatch ? Math.ceil(parseFloat(waitMatch[1])) : 5
waitTime(message) ==
  IF message.capture = NoCapture THEN DefaultWait ELSE CeilParseFloat(message.capture)

CountdownIds == 1..MaxCountdowns

\* setInterval(...): the id of the new timer
FreshCountdown == CHOOSE c \in CountdownIds :
                    c \notin countdowns /\ \A d \in CountdownIds : d < c => d \in countdowns

\* response.done with response.status 'failed' and the code
\* rate_limit_exceeded: the wait is set, the message logged and a countdown
\* timer started; then the handoff test every response.done makes.
MsgResponseRateLimited(message) ==
  /\ CanReceive
  /\ Cardinality(countdowns) < MaxCountdowns
  /\ isProcessing' = FALSE
  /\ turnCompleteSinceLesson' = TRUE
  /\ rateLimitWait' = waitTime(message)
  /\ countdowns' = countdowns \cup {FreshCountdown}
  /\ LET log == addMessage(messages, "system", "Rate limit reached. Please wait")
     IN IF narrationPending
        THEN /\ readyToPlayLessonAudio' = TRUE
             /\ aiPaused' = TRUE
             /\ messages' = addMessage(log, "system", "Press Space to start the lesson audio.")
        ELSE /\ messages' = log
             /\ UNCHANGED <<readyToPlayLessonAudio, aiPaused>>
  /\ UNCHANGED <<pendingLessonAudio, pendingLessonAudioRef, lessonAudioPlaying,
                 lessonAudioRef, audioElements>>
  /\ UNCHANGED <<currentTranscript, aiTranscript, mountedRef>>
  /\ UNCHANGED <<connVars, capVars, playVars, ctxVars, sent>>

\* NaN <= 1 is false
AtMostOne(prev) == prev # NaN /\ prev <= 1

\* The updater of the countdown: prev <= 1 ? (clearInterval, 0) : prev - 1
CountdownValue(prev) ==
  IF AtMostOne(prev) THEN 0 ELSE IF prev = NaN THEN NaN ELSE prev - 1

\* One firing of a countdown timer.  While the page is mounted React runs the
\* updater on the current value.  After the unmount no state changes any
\* more: the update is dropped, or React evaluates the updater eagerly on the
\* value last rendered and drops its result.
CountdownTick(c) ==
  /\ c \in countdowns
  /\ IF mountedRef
     THEN /\ rateLimitWait' = CountdownValue(rateLimitWait)
          /\ countdowns' = IF AtMostOne(rateLimitWait) THEN countdowns \ {c} ELSE countdowns
     ELSE /\ rateLimitWait' = rateLimitWait
          /\ \/ countdowns' = countdowns
             \/ countdowns' = IF AtMostOne(rateLimitWait) THEN countdowns \ {c} ELSE countdowns
  /\ UNCHANGED <<connVars, capVars, playVars, ctxVars, handoffVars, logVars, sent,
                 mountedRef>>

\* The cleanup of the mount effect: the connect timer is cleared, the socket
\* closed with code 1000 and forgotten, the audio context closed.  The
\* countdown timers are local to the handler that started them.
Unmount ==
  /\ mountedRef
  /\ mountedRef' = FALSE
  /\ timers' = timers \ {"connect"}
  /\ sockets' = IF wsRef # 0 /\ sockets[wsRef] \in {"CONNECTING", "OPEN"}
                THEN [sockets EXCEPT ![wsRef] = "CLOSING"] ELSE sockets
  /\ wsRef' = 0
  /\ UNCHANGED <<isConnected, isConnecting, connectionError, handlerTranscript>>
  /\ UNCHANGED <<rateLimitWait, countdowns>>
  /\ UNCHANGED <<capVars, playVars, ctxVars, handoffVars, logVars, sent>>

\* The exit paths of a session: the socket closing normally or not, failing,
\* and the page unmounting, under the toggle and the permission prompt.
NextExit ==
  \/ MountConnectTimer(FALSE)
  \/ \E s \in SocketIds : SocketOpen(s)
  \/ \E s \in SocketIds : SocketError(s)
  \/ \E s \in SocketIds, code \in CloseCodes, reason \in CloseReasons :
       SocketClose(s, code, reason)
  \/ mountedRef /\ UserToggle
  \/ GrantMic
  \/ DenyMic
  \/ Unmount

SpecExit == Init /\ [][NextExit]_vars

\* Every socket the page created has had its close event handled.
sessionOver ==
  /\ \E s \in SocketIds : sockets[s] = "CLOSED"
  /\ \A s \in SocketIds : sockets[s] \in {"NONE", "CLOSED"}

\* C37: once the session is over the microphone is released: no capture
\* graph is live and no stream is held, whichever way the session ended and
\* whenever the permission was granted.
SessionOverReleasesMicrophone ==
  sessionOver => (liveCaptureGraphs = 0 /\ ~mediaStreamRef /\ ~processorRef)

\* The page under rate-limited responses, the countdown timers they start
\* and the unmount.
NextRateLimit ==
  \/ MountConnectTimer(FALSE)
  \/ \E s \in SocketIds : SocketOpen(s)
  \/ \E message \in RateMessages : MsgResponseRateLimited(message)
  \/ \E c \in CountdownIds : CountdownTick(c)
  \/ Unmount

SpecRateLimit == Init /\ [][NextRateLimit]_vars

\* What the message says: the seconds of its number rounded up, where the
\* capture is a number.
IsNumber(t) ==
  /\ \E k \in 1..Len(t) : t[k] \in DigitChars
  /\ Cardinality({k \in 1..Len(t) : t[k] = "."}) <= 1

\* C35: a rate-limited response.done sets rateLimitWait to a number of
\* seconds: those of the message rounded up, 5 when the pattern captures
\* nothing; it logs the system message; and while a countdown timer runs, some firing of a timer changes
\* the state.  The timers are the only thing that lowers the wait or clears a
\* timer, and every firing that changes the state lowers the wait or clears a
\* timer, so the countdown reaches 0 with every timer cleared exactly when
\* this holds.
RateLimitCountdownSelfClears ==
  /\ [][\A message \in RateMessages :
          MsgResponseRateLimited(message) =>
            /\ rateLimitWait' \in Nat
            /\ IsNumber(message.capture) => rateLimitWait' = CeilParseFloat(message.capture)
            /\ message.capture = NoCapture => rateLimitWait' = DefaultWait
            /\ ~narrationPending =>
                 messages' = addMessage(messages, "system", "Rate limit reached. Please wait")]_vars
  /\ [](countdowns # {} => \E c \in countdowns : ENABLED <<CountdownTick(c)>>_vars)

====
